---- MODULE Spec2Model ----
(***************************************************************************)
(* Model of the table-extraction pipeline of the indicator bot:            *)
(*   src/parser_investing_generic.py  (_get, _to_scalar, _fmt_val,         *)
(*   _pick_target_table, fetch_table_rows).                                *)
(*                                                                         *)
(* Texts are sequences of characters; a character is a one-element string. *)
(* Characters outside ASCII are written by name: "NBSP" (U+00A0), "NNBSP"  *)
(* (U+202F), "UMINUS" (U+2212), "EMDASH" (U+2014), "BULLET" (U+2022) and   *)
(* "cy_x" for the Cyrillic letter transliterated x.                        *)
(*                                                                         *)
(* A float is modelled as an exact decimal [m |-> mantissa, e |-> exponent]*)
(* (value m * 10^e, m not divisible by 10), so that scaling by a unit      *)
(* (10^3 .. 10^12) never leaves the integers TLC can represent.            *)
(*                                                                         *)
(* The specifications share the variables:                                 *)
(*   SpecScalar  _to_scalar and _fmt_val applied to enumerated arguments,  *)
(*   SpecFetch   fetch_table_rows from its first request on,               *)
(*   SpecTable   fetch_table_rows on every document, once it is fetched,   *)
(*   SpecSignal  add_custom_indicator, get_indicators, _signal_from_rows   *)
(*               (src/storage.py, src/indicators.py, src/bot.py).          *)
(***************************************************************************)
EXTENDS Integers, Sequences, FiniteSets, TLC

VARIABLES
    \* ---- value normalizer / formatter (SpecScalar)
    spc,        \* position: "value" | "input" | "parsed"
    cell,       \* the cell text handed to _to_scalar
    scalar,     \* the (value, unit) pair _to_scalar returned
    fv, fu,     \* the (value, unit) pair handed to _fmt_val
    \* ---- fetch pipeline (SpecFetch, SpecTable)
    pc,         \* position inside fetch_table_rows / _get
    cs_avail,   \* whether `import cloudscraper` succeeds in this installation
    attempt,    \* loop variable of _get (0-based, as in the code)
    notes,      \* _get: the notes list
    last_err,   \* _get: last_err
    sleeps,     \* every time.sleep() made so far: [after |-> attempt+1, tenths |-> delay]
    reqs,       \* every HTTP request made so far: [try |-> attempt+1, client |-> ..]
    got,        \* what _get returned: [code, html, err, note]
    doc,        \* the document served by the site (a sequence of tables)
    limit,      \* fetch_table_rows' limit argument
    target,     \* what _pick_target_table returned: [idx, heads, diag]
    rows,       \* fetch_table_rows: the rows list built by the loop
    bad_rows,   \* fetch_table_rows: bad_rows
    ret,        \* what fetch_table_rows returned: [rows, err]
    \* ---- signal evaluation (SpecSignal)
    sig_pc,     \* position: "start" | "stored" | "merged" | "done"
    custom_indicators,  \* the rows of the table custom_indicators of one chat
    IND,        \* the map get_indicators returned: key -> [title, rule]
    top,        \* rows[0] of the rows handed to _signal_from_rows
    ind_key,    \* the indicator key handed to _signal_from_rows
    sig_text,   \* what _signal_from_rows returned
    \* ---- altseason pipeline (SpecClassify, SpecIndex, SpecStats)
    alt_pc,     \* position inside the altseason function being run
    index_value,  \* the argument of classify_altseason
    alt_label,  \* the label classify_altseason returned
    url_i,      \* fetch_altseason_index: position in ALTSEASON_URLS (1-based)
    page_text,  \* the visible text of the page the index was extracted from
    index_err,  \* fetch_altseason_index: last_error
    index_ret,  \* what fetch_altseason_index returned or raised
    stats_table,  \* fetch_altseason_stats: the rows of target_table after the first
    stats_ret,  \* what fetch_altseason_stats returned or raised
    \* ---- release time of a row (SpecIso)
    iso_pc,  \* position: "row" | "stamped"
    _tz,  \* the module's _tz: "None" when pytz could not build the zone
    iso_row,  \* the dict `row` of fetch_table_rows, date and time keys only
    \* ---- table renderers (SpecRender)
    ren_pc,  \* position: "call" | "text" | "image"
    ren_rows,  \* the rows argument: None or a list of row dicts
    ren_max,  \* the max_rows argument
    tg_text,  \* what format_table_for_tg returned: the lines of the table
    png_image,  \* what render_table_png returned: the rows drawn and the image height
    \* ---- bot: schedule, handlers and poll loop (SpecResched, SpecRace, SpecBot, SpecPoll)
    bot_pc,  \* position of the component being run
    scheduler,  \* the global scheduler: running or not (None before on_start)
    jobs,  \* the jobs of the scheduler of one chat: the set of [id, trig]
    kv_enabled,  \* kv rows sched2:enabled:<chat>:<ind>, by indicator key
    kv_time,  \* kv rows sched2:time:<chat>:<ind>
    kv_days,  \* kv rows sched2:days:<chat>:<ind>
    kv_ui,  \* kv row ui:state:<chat>
    kv_curr,  \* kv row sched2:current_ind:<chat>
    kv_last,  \* kv row last_indicator:<chat>
    kv_tmp,  \* kv rows ui:tmp:<chat>:add_title and add_url
    custom_rows,  \* the rows of custom_indicators of the chat: title -> key
    tasks,  \* the handler tasks in flight: position and local variables of each
    last_state,  \* poll_loop: last_state
    observed,  \* poll_loop: what fetch_rows_generic returned in this turn
    sent  \* what bot.send_message / m.answer sent last

svars == <<spc, cell, scalar, fv, fu>>
fvars == <<pc, cs_avail, attempt, notes, last_err, sleeps, reqs, got, doc, limit, target, rows, bad_rows, ret>>
gvars == <<sig_pc, custom_indicators, IND, top, ind_key, sig_text>>
avars == <<alt_pc, index_value, alt_label, url_i, page_text, index_err, index_ret, stats_table, stats_ret>>
ivars == <<iso_pc, _tz, iso_row>>
rvars == <<ren_pc, ren_rows, ren_max, tg_text, png_image>>
bvars == <<bot_pc, scheduler, jobs, kv_enabled, kv_time, kv_days, kv_ui, kv_curr, kv_last, kv_tmp, custom_rows, tasks, last_state, observed, sent>>
vars == <<svars, fvars, gvars, avars, ivars, rvars, bvars>>

\* the variables each component leaves alone
rest_s == <<fvars, gvars, avars, ivars, rvars, bvars>>
rest_f == <<svars, gvars, avars, ivars, rvars, bvars>>
rest_g == <<svars, fvars, avars, ivars, rvars, bvars>>
rest_a == <<svars, fvars, gvars, ivars, rvars, bvars>>
rest_i == <<svars, fvars, gvars, avars, rvars, bvars>>
rest_r == <<svars, fvars, gvars, avars, ivars, bvars>>
rest_b == <<svars, fvars, gvars, avars, ivars, rvars>>

\* no row is being stamped with its release time
IdleIso ==
    iso_pc = "idle" /\ _tz = "None" /\ iso_row = <<>>

\* no renderer has been called
IdleRender ==
    ren_pc = "idle" /\ ren_rows = [k |-> "none"] /\ ren_max = 0 /\ tg_text = <<>> /\ png_image = <<>>

\* the bot is not running
IdleBot ==
    /\ bot_pc = "idle" /\ scheduler = "None" /\ jobs = {} /\ kv_enabled = <<>> /\ kv_time = <<>>
    /\ kv_days = <<>> /\ kv_ui = "" /\ kv_curr = "" /\ kv_last = "" /\ kv_tmp = <<>> /\ custom_rows = <<>>
    /\ tasks = <<>> /\ last_state = <<>> /\ observed = <<>> /\ sent = <<>>

\* no altseason function has been called
IdleAlt ==
    /\ alt_pc = "idle" /\ index_value = 0 /\ alt_label = "" /\ url_i = 0 /\ page_text = <<>>
    /\ index_err = "" /\ index_ret = <<>> /\ stats_table = <<>> /\ stats_ret = <<>>

\* the signal evaluation has not been called
IdleSignal ==
    /\ sig_pc = "idle" /\ custom_indicators = <<>> /\ IND = <<>>
    /\ top = <<>> /\ ind_key = "" /\ sig_text = <<>>

-----------------------------------------------------------------------------
(* Bounds of the model *)

\* longest cell text enumerated exhaustively over CellAlphabet
MaxLen == 4

-----------------------------------------------------------------------------
(* Characters *)

Digits == {"0", "1", "2", "3", "4", "5", "6", "7", "8", "9"}

DigitVal(c) ==
    CASE c = "0" -> 0 [] c = "1" -> 1 [] c = "2" -> 2 [] c = "3" -> 3 [] c = "4" -> 4
      [] c = "5" -> 5 [] c = "6" -> 6 [] c = "7" -> 7 [] c = "8" -> 8 [] c = "9" -> 9

DigitChar(d) == <<"0", "1", "2", "3", "4", "5", "6", "7", "8", "9">>[d + 1]

\* what Python's \s and str.strip() treat as white space, within the alphabet
SpaceChars == {" ", "NBSP", "NNBSP"}

\* the sign class of RE_NUM_CORE: plus, hyphen-minus, U+2212
SignChars == {"+", "-", "UMINUS"}

\* the grouping separators of RE_NUM_CORE: blank, U+00A0, U+202F
GroupSepChars == {" ", "NBSP", "NNBSP"}

UpperLatin == <<"A", "B", "C", "D", "E", "F", "G", "H", "I", "J", "K", "L", "M",
                "N", "O", "P", "Q", "R", "S", "T", "U", "V", "W", "X", "Y", "Z">>
LowerLatin == <<"a", "b", "c", "d", "e", "f", "g", "h", "i", "j", "k", "l", "m",
                "n", "o", "p", "q", "r", "s", "t", "u", "v", "w", "x", "y", "z">>

\* the Cyrillic letters a..ya, "cy_x" lower case and "CY_X" upper case
UpperCyr == <<"CY_A", "CY_B", "CY_V", "CY_G", "CY_D", "CY_E", "CY_ZH", "CY_Z", "CY_I", "CY_J",
              "CY_K", "CY_L", "CY_M", "CY_N", "CY_O", "CY_P", "CY_R", "CY_S", "CY_T", "CY_U",
              "CY_F", "CY_H", "CY_TS", "CY_CH", "CY_SH", "CY_SHCH", "CY_HARD", "CY_Y",
              "CY_SOFT", "CY_EH", "CY_YU", "CY_YA">>
LowerCyr == <<"cy_a", "cy_b", "cy_v", "cy_g", "cy_d", "cy_e", "cy_zh", "cy_z", "cy_i", "cy_j",
              "cy_k", "cy_l", "cy_m", "cy_n", "cy_o", "cy_p", "cy_r", "cy_s", "cy_t", "cy_u",
              "cy_f", "cy_h", "cy_ts", "cy_ch", "cy_sh", "cy_shch", "cy_hard", "cy_y",
              "cy_soft", "cy_eh", "cy_yu", "cy_ya">>

Range(s) == {s[i] : i \in 1..Len(s)}

\* str.lower() on the characters that have a lower-case form
LowerMap ==
    [c \in Range(UpperLatin) \cup Range(UpperCyr) |->
        IF c \in Range(UpperLatin)
        THEN LowerLatin[CHOOSE i \in 1..Len(UpperLatin) : UpperLatin[i] = c]
        ELSE LowerCyr[CHOOSE i \in 1..Len(UpperCyr) : UpperCyr[i] = c]]

\* str.lower() on one character
LowerChar(c) == IF c \in DOMAIN LowerMap THEN LowerMap[c] ELSE c

\* str.lower()
Lower(s) == [i \in 1..Len(s) |-> LowerChar(s[i])]

\* the character class of unit tokens: a-z, Cyrillic a-ya, period, percent
TokenChars == Range(LowerLatin) \cup Range(LowerCyr) \cup {".", "%"}

-----------------------------------------------------------------------------
(* Text helpers *)

Slice(s, a, b) == IF a > b THEN <<>> ELSE SubSeq(s, a, b)

RECURSIVE SkipSpace(_, _)
\* first position >= i that holds no white space (Len(s)+1 when there is none)
SkipSpace(s, i) ==
    IF i <= Len(s) /\ s[i] \in SpaceChars THEN SkipSpace(s, i + 1) ELSE i

RECURSIVE SkipDigits(_, _)
SkipDigits(s, i) ==
    IF i <= Len(s) /\ s[i] \in Digits THEN SkipDigits(s, i + 1) ELSE i

RECURSIVE SkipIn(_, _, _)
\* first position >= i whose character is not in the set cs
SkipIn(s, i, cs) ==
    IF i <= Len(s) /\ s[i] \in cs THEN SkipIn(s, i + 1, cs) ELSE i

RECURSIVE BackIn(_, _, _)
\* last position <= i whose character is not in the set cs (0 when there is none)
BackIn(s, i, cs) ==
    IF i >= 1 /\ s[i] \in cs THEN BackIn(s, i - 1, cs) ELSE i

\* str.strip(chars)
StripChars(s, cs) == Slice(s, SkipIn(s, 1, cs), BackIn(s, Len(s), cs))

\* str.strip()
Strip(s) == StripChars(s, SpaceChars)

\* str.replace(c, "") for a one-character c
RemoveChar(s, c) == SelectSeq(s, LAMBDA x : x # c)

Contains(s, c) == \E i \in 1..Len(s) : s[i] = c

\* Python's `k in line` for strings
IsSubstr(k, line) ==
    \E i \in 0..(Len(line) - Len(k)) :
        (k = <<>>) \/ (line[i + 1] = k[1] /\ Slice(line, i + 1, i + Len(k)) = k)

\* _normalize_spaces: NBSP and narrow NBSP become blanks, then strip
_normalize_spaces(s) ==
    Strip([i \in 1..Len(s) |-> IF s[i] \in {"NBSP", "NNBSP"} THEN " " ELSE s[i]])

-----------------------------------------------------------------------------
(* Decimals: the model of Python floats *)

None == [k |-> "none"]

RECURSIVE Pow10(_)
Pow10(n) == IF n <= 0 THEN 1 ELSE 10 * Pow10(n - 1)

Abs(x) == IF x < 0 THEN -x ELSE x

RECURSIVE Norm(_, _)
\* the decimal m * 10^e with the trailing zeros of m moved into e
Norm(m, e) ==
    IF m = 0 THEN [k |-> "num", m |-> 0, e |-> 0]
    ELSE IF m % 10 = 0 THEN Norm(m \div 10, e + 1)
    ELSE [k |-> "num", m |-> m, e |-> e]

Dec(m, e) == Norm(m, e)

RECURSIVE NumDigits(_)
NumDigits(n) == IF n < 10 THEN 1 ELSE 1 + NumDigits(n \div 10)

\* abs(v) >= 10^p
AbsGe10(v, p) == v.m # 0 /\ NumDigits(Abs(v.m)) + v.e >= p + 1

\* v * 10^p and v / 10^p (p >= 0)
Scale10(v, p) == Norm(v.m, v.e + p)

Neg(v) == [v EXCEPT !.m = -(v.m)]

\* -abs(v)
NegAbs(v) == [v EXCEPT !.m = -Abs(v.m)]

RECURSIVE DigitsToInt(_)
DigitsToInt(ds) ==
    IF ds = <<>> THEN 0
    ELSE 10 * DigitsToInt(Slice(ds, 1, Len(ds) - 1)) + DigitVal(ds[Len(ds)])

RECURSIVE IntToDigits(_)
\* the decimal digits of n >= 0
IntToDigits(n) ==
    IF n < 10 THEN <<DigitChar(n)>> ELSE Append(IntToDigits(n \div 10), DigitChar(n % 10))

-----------------------------------------------------------------------------
(* RE_NUM and _to_float *)

\* RE_NUM_CORE from its first digit at position i: \d{1,3}(?:[   ]?\d{3})*(?:[.,]\d+)?
\* Every part after \d{1,3} is optional and greedy, so the engine never backtracks.
First3(s, i) == IF SkipDigits(s, i) > i + 3 THEN i + 3 ELSE SkipDigits(s, i)

Has3Digits(s, k) ==
    k + 2 <= Len(s) /\ s[k] \in Digits /\ s[k + 1] \in Digits /\ s[k + 2] \in Digits

RECURSIVE GroupLoop(_, _)
\* (?:[   ]?\d{3})* from position j
GroupLoop(s, j) ==
    LET k == IF j <= Len(s) /\ s[j] \in GroupSepChars THEN j + 1 ELSE j
    IN  IF Has3Digits(s, k) THEN GroupLoop(s, k + 3) ELSE j

\* (?:[.,]\d+)? from position j
DecimalPart(s, j) ==
    IF j + 1 <= Len(s) /\ s[j] \in {".", ","} /\ s[j + 1] \in Digits
    THEN SkipDigits(s, j + 1)
    ELSE j

NumCoreEnd(s, i) == DecimalPart(s, GroupLoop(s, First3(s, i)))

\* RE_NUM tried at position i: \(?\s*(SIGN?\s*CORE)\s*\)?
\* gs..ge-1 is group 1, en the position after the whole match
MatchAt(s, i) ==
    LET p1 == IF i <= Len(s) /\ s[i] = "(" THEN i + 1 ELSE i
        p2 == SkipSpace(s, p1)
        p3 == IF p2 <= Len(s) /\ s[p2] \in SignChars THEN p2 + 1 ELSE p2
        p4 == SkipSpace(s, p3)
    IN  IF p4 <= Len(s) /\ s[p4] \in Digits
        THEN LET ge == NumCoreEnd(s, p4)
                 p5 == SkipSpace(s, ge)
                 p6 == IF p5 <= Len(s) /\ s[p5] = ")" THEN p5 + 1 ELSE p5
             IN  [ok |-> TRUE, st |-> i, gs |-> p2, ge |-> ge, en |-> p6]
        ELSE [ok |-> FALSE, st |-> 0, gs |-> 0, ge |-> 0, en |-> 0]

RECURSIVE SearchFrom(_, _)
\* the regex search: the match at the leftmost position >= i that has one
SearchFrom(s, i) ==
    IF i > Len(s) THEN [ok |-> FALSE, st |-> 0, gs |-> 0, ge |-> 0, en |-> 0]
    ELSE IF MatchAt(s, i).ok THEN MatchAt(s, i)
    ELSE SearchFrom(s, i + 1)

\* RE_NUM.search(s)
RE_NUM_search(s) == SearchFrom(s, 1)

\* float(t) for t = [sign] digits [. digits]; None where float() raises
ParseFloat(t) ==
    LET neg  == t # <<>> /\ t[1] = "-"
        body == IF t # <<>> /\ t[1] \in {"+", "-"} THEN Tail(t) ELSE t
        dot  == IF Contains(body, ".") THEN CHOOSE i \in 1..Len(body) : body[i] = "." /\ \A j \in 1..(i - 1) : body[j] # "."
                ELSE Len(body) + 1
        ip   == Slice(body, 1, dot - 1)
        fp   == Slice(body, dot + 1, Len(body))
    IN  IF body = <<>> \/ ip \o fp = <<>> \/ \E i \in 1..Len(ip \o fp) : (ip \o fp)[i] \notin Digits
        THEN None
        ELSE LET ds  == ip \o fp
                 sig == BackIn(ds, Len(ds), {"0"})      \* the digits up to the last non-zero one
                 v   == Norm(DigitsToInt(Slice(ds, 1, sig)), Len(ds) - sig - Len(fp))
             IN  IF neg THEN Neg(v) ELSE v

\* the comma/period disambiguation of _to_float
CommaRule(t) ==
    IF Contains(t, ",") /\ Contains(t, ".") THEN RemoveChar(t, ",")
    ELSE IF Contains(t, ",") /\ ~Contains(t, ".") THEN [i \in 1..Len(t) |-> IF t[i] = "," THEN "." ELSE t[i]]
    ELSE t

\* a slip: parentheses flip the sign instead of forcing it
ParenSignFlips(val, paren_neg) == IF paren_neg THEN Neg(val) ELSE val

\* the sign applied when the text is parenthesised
ParenSign(val, paren_neg) == IF paren_neg THEN NegAbs(val) ELSE val

_to_float(num_str, paren_neg) ==
    IF num_str = <<>> THEN None
    ELSE LET t0  == Strip(num_str)
             t1  == [i \in 1..Len(t0) |-> IF t0[i] = "UMINUS" THEN "-" ELSE t0[i]]
             t   == CommaRule(RemoveChar(t1, " "))
             val == ParseFloat(t)
         IN  IF val = None THEN None ELSE ParenSign(val, paren_neg)

-----------------------------------------------------------------------------
(* Units: _UNIT_TOKENS, _NOISE_TOKENS, _extract_unit_token *)

\* _UNIT_TOKENS: token -> (normalized name, power of ten of the multiplier)
_UNIT_TOKENS ==
    << [tok |-> <<"%">>,                                       name |-> "percent",  exp |-> 0],
       [tok |-> <<"p","e","r","c","e","n","t">>,               name |-> "percent",  exp |-> 0],
       [tok |-> <<"cy_p","cy_r","cy_o","cy_ts">>,              name |-> "percent",  exp |-> 0],
       [tok |-> <<"k">>,                                       name |-> "thousand", exp |-> 3],
       [tok |-> <<"t","h","o","u","s","a","n","d">>,           name |-> "thousand", exp |-> 3],
       [tok |-> <<"t","h","s">>,                               name |-> "thousand", exp |-> 3],
       [tok |-> <<"cy_t","cy_y","cy_s">>,                      name |-> "thousand", exp |-> 3],
       [tok |-> <<"cy_t","cy_y","cy_s",".">>,                  name |-> "thousand", exp |-> 3],
       [tok |-> <<"m">>,                                       name |-> "million",  exp |-> 6],
       [tok |-> <<"m","l","n">>,                               name |-> "million",  exp |-> 6],
       [tok |-> <<"m","i","l","l","i","o","n">>,               name |-> "million",  exp |-> 6],
       [tok |-> <<"cy_m","cy_l","cy_n">>,                      name |-> "million",  exp |-> 6],
       [tok |-> <<"cy_m","cy_l","cy_n",".">>,                  name |-> "million",  exp |-> 6],
       [tok |-> <<"m","i","o">>,                               name |-> "million",  exp |-> 6],
       [tok |-> <<"m","i","o",".">>,                           name |-> "million",  exp |-> 6],
       [tok |-> <<"b">>,                                       name |-> "billion",  exp |-> 9],
       [tok |-> <<"b","n">>,                                   name |-> "billion",  exp |-> 9],
       [tok |-> <<"b","l","n">>,                               name |-> "billion",  exp |-> 9],
       [tok |-> <<"b","i","l","l","i","o","n">>,               name |-> "billion",  exp |-> 9],
       [tok |-> <<"cy_m","cy_l","cy_r","cy_d">>,               name |-> "billion",  exp |-> 9],
       [tok |-> <<"cy_m","cy_l","cy_r","cy_d",".">>,           name |-> "billion",  exp |-> 9],
       [tok |-> <<"t">>,                                       name |-> "trillion", exp |-> 12],
       [tok |-> <<"t","r","n">>,                               name |-> "trillion", exp |-> 12],
       [tok |-> <<"t","r","i","l","l","i","o","n">>,           name |-> "trillion", exp |-> 12] >>

InUnitTokens(t) == \E i \in 1..Len(_UNIT_TOKENS) : _UNIT_TOKENS[i].tok = t

UnitEntry(t) == _UNIT_TOKENS[CHOOSE i \in 1..Len(_UNIT_TOKENS) : _UNIT_TOKENS[i].tok = t]

\* the unit token of a text with no unit
NoToken == <<"NONE">>

RECURSIVE Tokens(_, _)
\* re.findall(r"[a-z<cyr>.%]+", s) from position i: the maximal runs of token characters
Tokens(s, i) ==
    IF i > Len(s) THEN <<>>
    ELSE IF s[i] \notin TokenChars THEN Tokens(s, i + 1)
    ELSE <<Slice(s, i, SkipIn(s, i, TokenChars) - 1)>> \o Tokens(s, SkipIn(s, i, TokenChars))

RECURSIVE FirstUnitToken(_)
\* the loop over the tokens: the first one that, stripped of periods, is a unit token
FirstUnitToken(toks) ==
    IF toks = <<>> THEN NoToken
    ELSE LET t == Lower(StripChars(Head(toks), {"."}))
         IN  IF InUnitTokens(t) THEN t ELSE FirstUnitToken(Tail(toks))

\* suf = re.match(r"[a-z<cyr>.%]{1,7}", tail), looked up with its periods stripped
SuffixToken(tail, n) ==
    IF n >= 1 /\ InUnitTokens(Lower(StripChars(Slice(tail, 1, IF n > 7 THEN 7 ELSE n), {"."})))
    THEN Lower(StripChars(Slice(tail, 1, IF n > 7 THEN 7 ELSE n), {"."}))
    ELSE NoToken

\* the text after the RE_NUM match, stripped of blanks and brackets
TailAfter(text_lower, en) ==
    StripChars(Strip(Slice(text_lower, en, Len(text_lower))),
               {"(", ")", "[", "]", "{", "}", ":", ";"})

\* the suffix glued to the number: up to 7 token characters after the RE_NUM match
GluedSuffix(text_lower) ==
    IF ~RE_NUM_search(text_lower).ok THEN NoToken
    ELSE SuffixToken(TailAfter(text_lower, RE_NUM_search(text_lower).en),
                     SkipIn(TailAfter(text_lower, RE_NUM_search(text_lower).en), 1, TokenChars) - 1)

_extract_unit_token(text_lower) ==
    IF Contains(text_lower, "%") THEN <<"%">>
    ELSE LET t == FirstUnitToken(Tokens(text_lower, 1))
         IN  IF t # NoToken THEN t ELSE GluedSuffix(text_lower)

-----------------------------------------------------------------------------
(* _to_scalar *)

\* the texts _to_scalar takes for "no data"
NoDataTokens ==
    { <<"EMDASH">>, <<"-">>, <<"BULLET">>, <<>>, <<"n", "/", "a">>, <<"n", "a">>,
      <<"EMDASH", "/", "EMDASH">>, <<"w","a","i","t","i","n","g">>,
      <<"p","e","n","d","i","n","g">> }

\* raw.strip().startswith("(") and raw.strip().endswith(")")
IsParenNeg(raw) ==
    LET r == Strip(raw) IN r # <<>> /\ r[1] = "(" /\ r[Len(r)] = ")"

NoScalar == [val |-> None, unit |-> "None"]

\* a slip: the unit is looked up before the number and returned without one
ToScalarUnitFirst(txt) ==
    LET raw == _normalize_spaces(txt)
        m   == RE_NUM_search(raw)
        unit_token == _extract_unit_token(Lower(raw))
        unit == IF unit_token # NoToken THEN UnitEntry(unit_token).name ELSE "None"
        num == IF m.ok THEN _to_float(Slice(raw, m.gs, m.ge - 1), IsParenNeg(raw)) ELSE None
    IN  IF num = None THEN [val |-> None, unit |-> unit]
        ELSE IF unit_token # NoToken
             THEN [val |-> Scale10(num, UnitEntry(unit_token).exp), unit |-> unit]
             ELSE [val |-> num, unit |-> "None"]

\* the tail of _to_scalar: the number scaled by the multiplier of its unit token
Scaled(num, unit_token) ==
    IF num = None THEN NoScalar
    ELSE IF unit_token # NoToken /\ InUnitTokens(unit_token)
         THEN [val  |-> Scale10(num, UnitEntry(unit_token).exp),
               unit |-> UnitEntry(unit_token).name]
         ELSE [val |-> num, unit |-> "None"]

\* group 1 of the match m in raw, as a float
MatchedNumber(raw, m) == _to_float(Slice(raw, m.gs, m.ge - 1), IsParenNeg(raw))

_to_scalar(txt) ==
    IF txt = <<>> THEN NoScalar
    ELSE LET raw == _normalize_spaces(txt)
         IN  IF Lower(raw) \in NoDataTokens THEN NoScalar
             ELSE IF ~RE_NUM_search(raw).ok THEN NoScalar
             ELSE Scaled(MatchedNumber(raw, RE_NUM_search(raw)), _extract_unit_token(Lower(raw)))

-----------------------------------------------------------------------------
(* _fmt_val *)

\* n / d rounded to the nearest integer, ties to even (n >= 0, d > 0)
RoundDiv(n, d) ==
    LET q == n \div d
        r == n % d
    IN  IF 2 * r > d THEN q + 1
        ELSE IF 2 * r = d THEN q + (q % 2)
        ELSE q

RECURSIVE Zeros(_)
Zeros(n) == IF n <= 0 THEN <<>> ELSE <<"0">> \o Zeros(n - 1)

\* f"{v:.2f}" of a non-negative number of hundredths h
TwoDecimals(h) ==
    IntToDigits(h \div 100) \o <<".">> \o <<DigitChar((h % 100) \div 10), DigitChar(h % 10)>>

\* f"{v:.2f}"
Format2f(v) ==
    LET a    == Abs(v.m)
        sign == IF v.m < 0 THEN <<"-">> ELSE <<>>
    IN  IF v.e >= 0
        THEN sign \o IntToDigits(a) \o Zeros(v.e) \o <<".", "0", "0">>
        ELSE IF v.e >= -2
             THEN sign \o TwoDecimals(a * Pow10(2 + v.e))
             ELSE sign \o TwoDecimals(RoundDiv(a, Pow10(-(v.e) - 2)))

\* f"{v:.2f}".rstrip("0").rstrip(".")
Fmt2(v) ==
    LET s  == Format2f(v)
        s1 == Slice(s, 1, BackIn(s, Len(s), {"0"}))
    IN  Slice(s1, 1, BackIn(s1, Len(s1), {"."}))

\* the suffix _fmt_val picks from the magnitude of v: [exp, letter]
MagnitudeSuffix(v) ==
    IF AbsGe10(v, 12) THEN [exp |-> 12, suf |-> <<"T">>]
    ELSE IF AbsGe10(v, 9) THEN [exp |-> 9, suf |-> <<"B">>]
    ELSE IF AbsGe10(v, 6) THEN [exp |-> 6, suf |-> <<"M">>]
    ELSE IF AbsGe10(v, 3) THEN [exp |-> 3, suf |-> <<"K">>]
    ELSE [exp |-> 0, suf |-> <<>>]

\* the placeholder of a missing value (the four Cyrillic letters o-zh-i-d)
Awaiting == <<"cy_o", "cy_zh", "cy_i", "cy_d">>

_fmt_val(v, u) ==
    IF v = None THEN Awaiting
    ELSE IF u = "percent" THEN Fmt2(v) \o <<"%">>
    ELSE LET ms == MagnitudeSuffix(v)
         IN  Fmt2(Norm(v.m, v.e - ms.exp)) \o ms.suf

-----------------------------------------------------------------------------
(* The value normalizer and the formatter as a state machine (SpecScalar) *)

\* the characters the cell texts are enumerated over
CellAlphabet == {"1", "2", ",", ".", "(", ")", "+", "-", "M", "%", " "}

\* cell texts longer than MaxLen that the specification and the sources name
NamedTexts ==
    { <<"1", ",", "2", "3", "4", ".", "5">>,          \* 1,234.5
      <<"1", "2", "3", "4", ",", "5">>,               \* 1234,5
      <<"1", " ", "2", "3", "4", ",", "5">>,          \* 1 234,5
      <<"1", "NBSP", "2", "3", "4", ".", "5">>,       \* 1<nbsp>234.5
      <<"(", "1", ".", "2", "M", ")">>,               \* (1.2M)
      <<"(", "+", "1", ".", "2", "M", ")">>,          \* (+1.2M)
      <<"(", "-", "1", ".", "2", "M", ")">>,          \* (-1.2M)
      <<"(", "UMINUS", "1", ".", "2", "M", ")">>,     \* (<minus>1.2M)
      <<"(", "1", ".", "2", ")", "M">>,               \* (1.2)M
      <<"(", "1", ".", "2", ")", " ", "m", "l", "n">>,\* (1.2) mln
      <<"3", ".", "2", " ", "m", "l", "n">>,          \* 3.2 mln
      <<"3", ".", "2", "M">>,                         \* 3.2M
      <<"+", "1">>, <<"(", "+", "1", ")">>, <<"(", "1", ")", "%">>,
      <<"1", "0", "0", "0", "%">>, <<"2", "3", "0", "0">>,
      <<"5", " ", "cy_t", "cy_y", "cy_s", ".">>,      \* 5 tys.
      <<"2", "5", "0", "K", " ", "j", "o", "b", "s">>,\* 250K jobs
      <<"EMDASH">>, <<"-">>, <<"BULLET">>,
      <<"n", "/", "a">>, <<"N", "/", "A">>, <<"n", "a">>,
      <<"EMDASH", "/", "EMDASH">>,
      <<"p","e","n","d","i","n","g">>, <<"P","e","n","d","i","n","g">>,
      <<"w","a","i","t","i","n","g">>,
      <<"a", "b", "c">>, <<"t", "b", "d">>, <<" ", "NBSP", " ">> }

CellTexts == UNION {[1..n -> CellAlphabet] : n \in 0..MaxLen} \cup NamedTexts

\* the values handed to the formatter, as mantissa and power of ten
FmtValues ==
    { Dec(5, -1), Dec(1, 0), Dec(999, 0), Dec(1, 3), Dec(15, 5), Dec(23, 8),
      Dec(1234, 0), Dec(999999, -3), Dec(-15, 5), Dec(25, -2), Dec(42, 11) }

FmtUnits == {"percent", "thousand", "million", "billion", "trillion", "None"}

\* the fetch pipeline has not run
NotReturned == [returned |-> FALSE]
NoDoc == [markup |-> "none", tables |-> <<>>]
NoTarget == [idx |-> 0, heads |-> <<>>, diag |-> [tables_found |-> 0]]

InitScalar ==
    /\ \/ /\ spc = "input"
          /\ cell \in CellTexts
          /\ fv = None
          /\ fu = "None"
       \/ /\ spc = "value"
          /\ cell = <<>>
          /\ fv \in FmtValues
          /\ fu \in FmtUnits
    /\ scalar = NoScalar
    /\ pc = "idle" /\ cs_avail = TRUE /\ attempt = 0 /\ notes = <<>> /\ last_err = <<>> /\ sleeps = <<>>
    /\ reqs = <<>> /\ got = NotReturned /\ doc = NoDoc /\ limit = 0 /\ target = NoTarget
    /\ rows = <<>> /\ bad_rows = 0 /\ ret = NotReturned
    /\ IdleSignal
    /\ IdleAlt
    /\ IdleIso
    /\ IdleRender
    /\ IdleBot

\* normalize(cellText): _to_scalar applied to the cell
Normalize ==
    /\ spc = "input"
    /\ scalar' = _to_scalar(cell)
    /\ spc' = "parsed"
    /\ UNCHANGED <<cell, fv, fu>>
    /\ UNCHANGED rest_s

\* formatScalar(v, u): _fmt_val writes the cell text that is parsed back next
FormatScalar ==
    /\ spc = "value"
    /\ cell' = _fmt_val(fv, fu)
    /\ spc' = "input"
    /\ UNCHANGED <<scalar, fv, fu>>
    /\ UNCHANGED rest_s

NextScalar == Normalize \/ FormatScalar

SpecScalar == InitScalar /\ [][NextScalar]_vars

-----------------------------------------------------------------------------
(* Claims about the value normalizer and the formatter (SpecScalar) *)

Parsed == spc = "parsed"

\* a cell text was normalized directly (not produced by the formatter)
ParsedCell == Parsed /\ fv = None

\* a formatted value was parsed back
ParsedBack == Parsed /\ fv # None

\* C1: normalize("1,234.5") and normalize("1234,5") both give (1234.5, None): a comma
\* is a thousands separator when a period is present and the decimal point otherwise.
C1_CommaPeriod ==
    ParsedCell =>
        /\ cell = <<"1", ",", "2", "3", "4", ".", "5">> => scalar = [val |-> Dec(12345, -1), unit |-> "None"]
        /\ cell = <<"1", "2", "3", "4", ",", "5">> => scalar = [val |-> Dec(12345, -1), unit |-> "None"]

\* the six values the round-trip property names
RoundTripValues == {Dec(5, -1), Dec(1, 0), Dec(999, 0), Dec(1, 3), Dec(15, 5), Dec(23, 8)}

\* the power of ten of the displayed mantissa of _fmt_val(v, u)
DisplayExp(v, u) == IF u = "percent" THEN 0 ELSE MagnitudeSuffix(v).exp

\* |a - b| <= 0.005 * 10^k: a and b agree within 2-decimal rounding at scale 10^k
Close(a, b, k) ==
    LET ce == IF a.e < b.e THEN a.e ELSE b.e
        d  == Abs(a.m * Pow10(a.e - ce) - b.m * Pow10(b.e - ce))
    IN  IF k - 3 >= ce THEN d <= 5 * Pow10(k - 3 - ce) ELSE d = 0

\* C2: round trip: for the six values v and every unit u, _to_scalar(_fmt_val(v, u))
\* has a value equal to v within 2-decimal rounding of the displayed mantissa, and unit u.
C2_RoundTrip ==
    (ParsedBack /\ fv \in RoundTripValues) =>
        /\ scalar.val # None
        /\ Close(scalar.val, fv, DisplayExp(fv, fu))
        /\ scalar.unit = fu

\* the first number of the text stands in parentheses: RE_NUM's match opens with "("
\* and a ")" follows the number
NumberInParens(txt) ==
    LET raw == _normalize_spaces(txt)
        m   == RE_NUM_search(raw)
    IN  /\ m.ok
        /\ raw[m.st] = "("
        /\ \E i \in m.ge..Len(raw) : raw[i] = ")"

ParenExamples ==
    { <<"(", "1", ".", "2", "M", ")">>, <<"(", "+", "1", ".", "2", "M", ")">>,
      <<"(", "-", "1", ".", "2", "M", ")">> }

Unsigned(txt) == SelectSeq(txt, LAMBDA c : c \notin SignChars)

ClaimNoData ==
    { <<"EMDASH">>, <<"-">>, <<"n", "/", "a">>, <<>>, <<"p","e","n","d","i","n","g">>,
      <<"w","a","i","t","i","n","g">> }

\* C4: _to_scalar returns (None, None) for the no-data tokens and for every text without
\* a numeric substring (no digit); value and unit are absent together.
C4_NoDataIsNone ==
    ParsedCell =>
        /\ cell \in ClaimNoData => scalar = NoScalar
        /\ (\A i \in 1..Len(cell) : cell[i] \notin Digits) => scalar = NoScalar
        /\ scalar.val = None => scalar.unit = "None"

C4_Witness ==
    /\ ParsedCell
    /\ cell = <<"M">>
    /\ scalar = NoScalar

-----------------------------------------------------------------------------
(* Table detection: _idx_for, _score_heads, _pick_target_table *)
(* A document is the sequence of its <table> elements in document order; a *)
(* table is [heads |-> the texts of its "thead th" cells,                   *)
(*           body  |-> its "tbody tr" rows, each the texts of its td cells]. *)

_HEAD_ACTUAL_KEYS ==
    << <<"a", "c", "t", "u", "a", "l">>,
       <<"cy_f", "cy_a", "cy_k", "cy_t">>,
       <<"cy_f", "cy_a", "cy_k", "cy_t", "cy_i", "cy_ch">> >>

_HEAD_FORECAST_KEYS ==
    << <<"f", "o", "r", "e", "c", "a", "s", "t">>,
       <<"cy_p", "cy_r", "cy_o", "cy_g", "cy_n", "cy_o", "cy_z">>,
       <<"e", "s", "t", "i", "m", "a", "t", "e">>,
       <<"c", "o", "n", "s", "e", "n", "s", "u", "s">>,
       <<"e", "s", "t", ".">>,
       <<"e", "x", "p", ".">>,
       <<"e", "x", "p", "e", "c", "t", "a", "t", "i", "o", "n">> >>

_HEAD_PREV_KEYS ==
    << <<"p", "r", "e", "v", "i", "o", "u", "s">>,
       <<"p", "r", "i", "o", "r">>,
       <<"cy_p", "cy_r", "cy_e", "cy_d", ".">>,
       <<"cy_p", "cy_r", "cy_e", "cy_d">>,
       <<"cy_p", "cy_r", "cy_e", "cy_d", "cy_y", "cy_d", "cy_u", "cy_shch">> >>

\* fewest cells of a data row (len(tds) >= 5, len(tds) < 5)
MinCells == 5

\* how many leading body rows the row-shape fallback looks at (trs[:3])
FallbackScanRows == 3

\* " ".join(heads)
RECURSIVE JoinBlank(_)
JoinBlank(texts) ==
    IF texts = <<>> THEN <<>>
    ELSE IF Len(texts) = 1 THEN texts[1]
    ELSE texts[1] \o <<" ">> \o JoinBlank(Tail(texts))

\* any(k in h for k in keys)
AnyKeyIn(keys, h) == \E i \in 1..Len(keys) : IsSubstr(keys[i], h)

RECURSIVE IdxLoop(_, _, _, _)
\* the loop of _idx_for from the 0-based index i
IdxLoop(heads, keys, default, i) ==
    IF i >= Len(heads) THEN default
    ELSE IF AnyKeyIn(keys, heads[i + 1]) THEN i
    ELSE IdxLoop(heads, keys, default, i + 1)

_idx_for(heads, keys, default) == IdxLoop(heads, keys, default, 0)

_score_heads(heads) ==
    LET line == JoinBlank(heads)
    IN  (IF AnyKeyIn(_HEAD_ACTUAL_KEYS, line) THEN 5 ELSE 0)
      + (IF AnyKeyIn(_HEAD_FORECAST_KEYS, line) THEN 5 ELSE 0)
      + (IF AnyKeyIn(_HEAD_PREV_KEYS, line) THEN 5 ELSE 0)

\* [th.get_text(" ", strip=True).lower() for th in tb.select("thead th")]
HeadsOf(tb) == [i \in 1..Len(tb.heads) |-> Lower(tb.heads[i])]

\* sc = _score_heads(heads) if heads else 0
ScoreOf(tb) == IF HeadsOf(tb) # <<>> THEN _score_heads(HeadsOf(tb)) ELSE 0

\* a slip: >= lets a later table of equal score replace the best one
BetterOrEqual(sc, best_sc) == sc >= best_sc

\* if sc > best[2]
Better(sc, best_sc) == sc > best_sc

RECURSIVE BestLoop(_, _, _)
\* the first loop of _pick_target_table from table i on; best = [idx, sc], idx 0 for None
BestLoop(tables, i, best) ==
    IF i > Len(tables) THEN best
    ELSE IF Better(ScoreOf(tables[i]), best.sc)
         THEN BestLoop(tables, i + 1, [idx |-> i, sc |-> ScoreOf(tables[i])])
         ELSE BestLoop(tables, i + 1, best)

HasDigit(x) == \E i \in 1..Len(x) : x[i] \in Digits

\* len(tds) >= 5 and any("%" in x or re.search(r"\d", x) for x in tds)
RowQualifies(tr) ==
    /\ Len(tr) >= MinCells
    /\ \E i \in 1..Len(tr) : Contains(Lower(tr[i]), "%") \/ HasDigit(Lower(tr[i]))

\* a variant that looks at every body row
ScannedRowsAll(trs) == trs

\* trs[:3]
ScannedRows(trs) == Slice(trs, 1, IF Len(trs) < FallbackScanRows THEN Len(trs) ELSE FallbackScanRows)

RECURSIVE FallbackLoop(_, _)
\* the second loop of _pick_target_table from table i on: the index picked, 0 for none
FallbackLoop(tables, i) ==
    IF i > Len(tables) THEN 0
    ELSE IF \E r \in 1..Len(ScannedRows(tables[i].body)) : RowQualifies(ScannedRows(tables[i].body)[r])
         THEN i
         ELSE FallbackLoop(tables, i + 1)

\* a slip: the ultimate fallback takes the first table
LastTableFirst(tables) == 1

\* tables[-1]
LastTable(tables) == Len(tables)

\* returns [idx |-> index of the table picked (0 for None), heads, diag]
_pick_target_table(tables) ==
    IF tables = <<>>
    THEN [idx |-> 0, heads |-> <<>>, diag |-> [tables_found |-> 0, note |-> "[TABLE] no <table> found"]]
    ELSE LET best == BestLoop(tables, 1, [idx |-> 0, sc |-> -1])
             cand == [i \in 1..Len(tables) |-> [heads |-> HeadsOf(tables[i]), score |-> ScoreOf(tables[i])]]
             fb   == FallbackLoop(tables, 1)
             last == LastTable(tables)
         IN  IF best.idx # 0 /\ best.sc > 0
             THEN [idx |-> best.idx, heads |-> HeadsOf(tables[best.idx]),
                   diag |-> [tables_found |-> Len(tables), candidates |-> cand,
                             picked |-> [heads |-> HeadsOf(tables[best.idx]), score |-> best.sc, fallback |-> "no"]]]
             ELSE IF fb # 0
             THEN [idx |-> fb, heads |-> HeadsOf(tables[fb]),
                   diag |-> [tables_found |-> Len(tables), candidates |-> cand,
                             picked |-> [heads |-> HeadsOf(tables[fb]), score |-> 1, fallback |-> "rows"]]]
             ELSE [idx |-> last, heads |-> HeadsOf(tables[last]),
                   diag |-> [tables_found |-> Len(tables), candidates |-> cand,
                             picked |-> [heads |-> HeadsOf(tables[last]), score |-> 0, fallback |-> "last_table"]]]

-----------------------------------------------------------------------------
(* Row extraction: _clean, _parse_revised and the loop of fetch_table_rows *)

RECURSIVE ReplaceDouble(_)
\* str.replace("  ", " "): left to right, non-overlapping
ReplaceDouble(t) ==
    IF Len(t) < 2 THEN t
    ELSE IF t[1] = " " /\ t[2] = " " THEN <<" ">> \o ReplaceDouble(Slice(t, 3, Len(t)))
    ELSE <<t[1]>> \o ReplaceDouble(Tail(t))

_clean(t) == ReplaceDouble(_normalize_spaces(t))

\* the two phrases of RE_REVISED: "revised from" and its Russian counterpart
RevisedPhrases ==
    << [w1 |-> <<"r", "e", "v", "i", "s", "e", "d">>, w2 |-> <<"f", "r", "o", "m">>],
       [w1 |-> <<"cy_p", "cy_e", "cy_r", "cy_e", "cy_s", "cy_m", "cy_o", "cy_t", "cy_r", "cy_e", "cy_n", "cy_o">>,
        w2 |-> <<"cy_s">>] >>

\* w1 \s+ w2 \s+ [^\s] tried at position i (ignoring case): where group 1 starts, 0 for no match
PhraseAt(t, i, ph) ==
    LET a   == i + Len(ph.w1)
        b   == SkipSpace(t, a)
        c   == b + Len(ph.w2)
        d   == SkipSpace(t, c)
    IN  IF /\ a - 1 <= Len(t) /\ Lower(Slice(t, i, a - 1)) = ph.w1
           /\ b > a
           /\ c - 1 <= Len(t) /\ Lower(Slice(t, b, c - 1)) = ph.w2
           /\ d > c
           /\ d <= Len(t)
        THEN d ELSE 0

RevisedAt(t, i) ==
    IF PhraseAt(t, i, RevisedPhrases[1]) # 0 THEN PhraseAt(t, i, RevisedPhrases[1])
    ELSE PhraseAt(t, i, RevisedPhrases[2])

RECURSIVE RevisedFrom(_, _)
\* RE_REVISED.search(text) from position i: where group 1 starts, 0 for no match
RevisedFrom(t, i) ==
    IF i > Len(t) THEN 0
    ELSE IF RevisedAt(t, i) # 0 THEN RevisedAt(t, i)
    ELSE RevisedFrom(t, i + 1)

\* group 1 of RE_REVISED's match, scalar-normalized
_parse_revised(text) ==
    IF text = <<>> THEN NoScalar
    ELSE IF RevisedFrom(text, 1) = 0 THEN NoScalar
    ELSE _to_scalar(Strip(Slice(text, RevisedFrom(text, 1), Len(text))))

\* a slip: a negative index counts from the fifth cell, not from the row's last
CellAtFromFifth(vals, i) ==
    IF i >= 0 THEN (IF i < Len(vals) THEN vals[i + 1] ELSE <<>>)
    ELSE (IF -i <= Len(vals) THEN vals[MinCells + i + 1] ELSE <<>>)

\* cell(i) of fetch_table_rows: vals[i] with Python's indexing, "" when out of range
CellAt(vals, i) ==
    IF i >= 0 THEN (IF i < Len(vals) THEN vals[i + 1] ELSE <<>>)
    ELSE (IF -i <= Len(vals) THEN vals[Len(vals) + i + 1] ELSE <<>>)

\* the dict `row` of fetch_table_rows, from the five texts and their parsed values;
\* the optional key release_dt_iso is added by StampRow
RowDict(date_text, time_text, actual_text, forecast_text, previous_text, act, fc, pr, rev) ==
    [date |-> _clean(date_text), time |-> _clean(time_text),
     actual |-> _clean(actual_text), forecast |-> _clean(forecast_text),
     previous |-> _clean(previous_text),
     actual_val |-> act.val, actual_unit |-> act.unit,
     forecast_val |-> fc.val, forecast_unit |-> fc.unit,
     previous_val |-> pr.val, previous_unit |-> pr.unit,
     revised_from |-> IF rev.val # None THEN rev ELSE NoScalar]

\* the row built from the cell texts of one body row
MakeRow(vals, idx_actual, idx_forecast, idx_previous) ==
    RowDict(CellAt(vals, 0), CellAt(vals, 1),
            CellAt(vals, idx_actual), CellAt(vals, idx_forecast), CellAt(vals, idx_previous),
            _to_scalar(CellAt(vals, idx_actual)),
            _to_scalar(CellAt(vals, idx_forecast)),
            _to_scalar(CellAt(vals, idx_previous)),
            _parse_revised(CellAt(vals, idx_actual)))

\* a slip: a row of exactly MinCells cells is rejected too
TooFewCellsOffByOne(tds) == Len(tds) <= MinCells

\* if len(tds) < 5
TooFewCells(tds) == Len(tds) < MinCells

RECURSIVE RowLoop(_, _, _, _)
\* the loop over target.select("tbody tr") from row i on; acc = [rows, bad_rows],
\* idx = [idx_actual, idx_forecast, idx_previous]
RowLoop(body, i, idx, acc) ==
    IF i > Len(body) THEN acc
    ELSE IF TooFewCells(body[i])
         THEN RowLoop(body, i + 1, idx, [acc EXCEPT !.bad_rows = @ + 1])
         ELSE RowLoop(body, i + 1, idx,
                      [acc EXCEPT !.rows = Append(@, MakeRow(body[i], idx.idx_actual,
                                                             idx.idx_forecast, idx.idx_previous))])

\* a slip: rows[:limit + 1]
FirstNPlusOne(rs, n) == Slice(rs, 1, IF n + 1 < Len(rs) THEN n + 1 ELSE Len(rs))

\* rows[:limit] for limit >= 0
FirstN(rs, n) == Slice(rs, 1, IF n < Len(rs) THEN n ELSE Len(rs))

NoErr == [tag |-> "None"]

\* a slip: the count of rejected rows is left out of the [ROW] error
RowErrNoCount(diag, idx_diag, n) ==
    [tag |-> "ROW", diag |-> diag, col_indexing |-> idx_diag, bad_rows |-> 0]

\* f"[ROW] no rows parsed | diag: {diag} | bad_rows: {bad_rows}"
RowErr(diag, idx_diag, n) ==
    [tag |-> "ROW", diag |-> diag, col_indexing |-> idx_diag, bad_rows |-> n]

-----------------------------------------------------------------------------
(* The documents the site serves *)

\* most body rows of a table enumerated exhaustively
MaxRows == 3

\* most tables of a document enumerated exhaustively
MaxTables == 3

\* largest limit argument
MaxLimit == 2

rGood ==
    << <<"1", ".", "1", "1", ".", "2", "6">>,
       <<"1", "5", ":", "3", "0">>,
       <<"3", ".", "2", "%">>,
       <<"3", ".", "1", "%">>,
       <<"3", ".", "0", "%">> >>

rUnit ==
    << <<"1", ".", "1", "0", ".", "2", "6">>,
       <<"1", "4", ":", "0", "0">>,
       <<"2", "5", "0", "K", " ", "r", "e", "v", "i", "s", "e", "d", " ", "f", "r", "o", "m", " ", "2", "4", "5", "K">>,
       <<"2", "4", "0", "K">>,
       <<"(", "1", ".", "2", "M", ")">> >>

rText ==
    << <<"t", "b", "d">>,
       <<"s", "o", "o", "n">>,
       <<"EMDASH">>,
       <<"n", "/", "a">>,
       <<"p", "e", "n", "d", "i", "n", "g">> >>

rShort ==
    << <<"1", ".", "9", ".", "2", "6">>,
       <<"1", "5", ":", "3", "0">>,
       <<"3", ".", "2", "%">>,
       <<"3", ".", "1", "%">> >>

rSix ==
    << <<"1", ".", "8", ".", "2", "6">>,
       <<"1", "5", ":", "3", "0">>,
       <<"n", "o", "t", "e">>,
       <<"1">>,
       <<"2">>,
       <<"3">> >>

HFull ==
    << <<"D", "a", "t", "e">>,
       <<"T", "i", "m", "e">>,
       <<"A", "C", "T", "U", "A", "L">>,
       <<"F", "o", "r", "e", "c", "a", "s", "t">>,
       <<"p", "r", "e", "v", "i", "o", "u", "s">> >>

HRus ==
    << <<"CY_D", "cy_a", "cy_t", "cy_a">>,
       <<"CY_V", "cy_r", "cy_e", "cy_m", "cy_ya">>,
       <<"CY_F", "cy_a", "cy_k", "cy_t", ".">>,
       <<"CY_P", "cy_r", "cy_o", "cy_g", "cy_n", "cy_o", "cy_z">>,
       <<"CY_P", "cy_r", "cy_e", "cy_d", ".">> >>

HActual ==
    << <<"D", "a", "t", "e">>,
       <<"A", "c", "t", "u", "a", "l">> >>

HTwo ==
    << <<"P", "e", "r", "i", "o", "d">>,
       <<"E", "s", "t", ".">>,
       <<"P", "r", "i", "o", "r">> >>

HOther ==
    << <<"N", "a", "m", "e">>,
       <<"V", "a", "l", "u", "e">> >>

\* a header row wider than the body rows, with one keyword cell, in seventh place
HWide ==
    << <<"D", "a", "t", "e">>,
       <<"T", "i", "m", "e">>,
       <<"E", "v", "e", "n", "t">>,
       <<"Z", "o", "n", "e">>,
       <<"N", "o", "t", "e">>,
       <<"U", "n", "i", "t">>,
       <<"P", "r", "i", "o", "r">> >>

RowKinds == {rGood, rText, rShort, rSix}

Bodies == UNION {[1..n -> RowKinds] : n \in 0..MaxRows}

\* a headerless table whose only qualifying row is its fourth
tDeep == [heads |-> HOther, body |-> <<rText, rShort, rText, rGood>>]

\* the tables the multi-table documents are built from
LocTables ==
    { [heads |-> HFull,   body |-> <<rShort, rUnit>>],
      [heads |-> HRus,    body |-> <<>>],
      [heads |-> HTwo,    body |-> <<rSix>>],
      [heads |-> HActual, body |-> <<rGood, rSix>>],
      [heads |-> <<>>,    body |-> <<rText, rGood>>],
      tDeep,
      [heads |-> <<>>,    body |-> <<rText, rShort>>],
      [heads |-> <<>>,    body |-> <<>>] }

\* one table with every body up to MaxRows rows, with and without a header row
DocsRows == {[markup |-> "ok", tables |-> <<[heads |-> h, body |-> b]>>] : h \in {HFull, <<>>, HWide}, b \in Bodies}

\* every sequence of up to MaxTables tables
DocsLocate == {[markup |-> "ok", tables |-> ts] : ts \in UNION {[1..n -> LocTables] : n \in 0..MaxTables}}

\* markup the HTML parser rejects
RejectedMarkup == [markup |-> "rejected", tables |-> <<>>]

Documents == DocsRows \cup DocsLocate \cup {RejectedMarkup}

-----------------------------------------------------------------------------
(* _get: three attempts, cloudscraper then requests, sleep after each attempt *)

\* for attempt in range(3)
MaxAttempts == 3

\* time.sleep(0.6 * (2 ** attempt)), in tenths of a second
BackoffTenths == 6

RECURSIVE Pow2(_)
Pow2(n) == IF n <= 0 THEN 1 ELSE 2 * Pow2(n - 1)

SleepDelay(a) == BackoffTenths * Pow2(a)

\* r.text is empty
EmptyBody == [markup |-> "empty", tables |-> <<>>]

\* the documents served in the runs that start at the network
NetDocs ==
    { [markup |-> "ok", tables |-> <<[heads |-> HFull, body |-> <<rShort, rGood, rUnit>>]>>],
      [markup |-> "ok", tables |-> <<[heads |-> <<>>, body |-> <<rShort>>]>>],
      [markup |-> "ok", tables |-> <<>>],
      RejectedMarkup }

\* what a request can come back with: an exception, or a status and a body
Responses ==
    {[raised |-> TRUE, status |-> 0, body |-> EmptyBody]}
    \cup {[raised |-> FALSE, status |-> 200, body |-> b] : b \in NetDocs \cup {EmptyBody}}
    \cup {[raised |-> FALSE, status |-> 403, body |-> b] : b \in {EmptyBody, [markup |-> "ok", tables |-> <<>>]}}

\* f"try{attempt+1}: <client> -> HTTP {r.status_code}"
HttpNote(a, client, status) == [kind |-> "http", try |-> a + 1, client |-> client, status |-> status]

\* f"[NET] <client> HTTP {r.status_code}"
HttpErr(client, status) == [tag |-> "NET", client |-> client, what |-> "HTTP", status |-> status]

\* f"[NET] <client> fail: {e}", as last_err and as the note appended (str(last_err))
FailErr(client) == [tag |-> "NET", client |-> client, what |-> "fail", status |-> 0]
FailNote(client) == [kind |-> "fail", try |-> 0, client |-> client, status |-> 0]

\* last_err = None
NoLastErr == [tag |-> "None", client |-> "", what |-> "", status |-> 0]

\* r.status_code == 200 and r.text
GoodResponse(r) == r.status = 200 /\ r.body # EmptyBody

\* return r.status_code, r.text, None, "; ".join(notes)
GotOk(r, ns) == [returned |-> TRUE, code |-> r.status, html |-> r.body, err |-> NoErr, note |-> ns]

\* return 0, None, last_err or "[NET] network error", "; ".join(notes)
GotFail(le, ns) ==
    [returned |-> TRUE, code |-> 0, html |-> EmptyBody,
     err |-> IF le # NoLastErr THEN le ELSE [tag |-> "NET", client |-> "", what |-> "network error", status |-> 0],
     note |-> ns]

\* a slip: the trace is left out of the error
NetFailureNoNote(g) == [returned |-> TRUE, rows |-> <<>>, err |-> [tag |-> g.err.tag, reason |-> g.err, note |-> <<>>]]

\* fetch_table_rows: return [], f"{net_err or '[NET] HTTP error'} | note: {net_note}"
NetFailure(g) == [returned |-> TRUE, rows |-> <<>>, err |-> [tag |-> g.err.tag, reason |-> g.err, note |-> g.note]]

\* the first half of an attempt: cloudscraper
Cloudscraper ==
    /\ pc = "cs"
    /\ \/ /\ ~cs_avail                         \* import cloudscraper raises
          /\ last_err' = FailErr("cloudscraper")
          /\ notes' = Append(notes, FailNote("cloudscraper"))
          /\ pc' = "rq"
          /\ UNCHANGED <<reqs, got, doc>>
       \/ /\ cs_avail
          /\ \E r \in Responses :
                /\ reqs' = Append(reqs, [try |-> attempt + 1, client |-> "cloudscraper"])
                /\ IF r.raised
                   THEN /\ last_err' = FailErr("cloudscraper")
                        /\ notes' = Append(notes, FailNote("cloudscraper"))
                        /\ pc' = "rq"
                        /\ UNCHANGED <<got, doc>>
                   ELSE /\ notes' = Append(notes, HttpNote(attempt, "cloudscraper", r.status))
                        /\ IF GoodResponse(r)
                           THEN /\ got' = GotOk(r, notes')
                                /\ doc' = r.body
                                /\ pc' = "fetched"
                                /\ UNCHANGED last_err
                           ELSE /\ last_err' = HttpErr("cloudscraper", r.status)
                                /\ pc' = "rq"
                                /\ UNCHANGED <<got, doc>>
    /\ UNCHANGED <<cs_avail, attempt, sleeps, limit, target, rows, bad_rows, ret>>
    /\ UNCHANGED rest_f

\* the second half of an attempt: requests
Requests ==
    /\ pc = "rq"
    /\ \E r \in Responses :
          /\ reqs' = Append(reqs, [try |-> attempt + 1, client |-> "requests"])
          /\ IF r.raised
             THEN /\ last_err' = FailErr("requests")
                  /\ notes' = Append(notes, FailNote("requests"))
                  /\ pc' = "sleep"
                  /\ UNCHANGED <<got, doc>>
             ELSE /\ notes' = Append(notes, HttpNote(attempt, "requests", r.status))
                  /\ IF GoodResponse(r)
                     THEN /\ got' = GotOk(r, notes')
                          /\ doc' = r.body
                          /\ pc' = "fetched"
                          /\ UNCHANGED last_err
                     ELSE /\ last_err' = HttpErr("requests", r.status)
                          /\ pc' = "sleep"
                          /\ UNCHANGED <<got, doc>>
    /\ UNCHANGED <<cs_avail, attempt, sleeps, limit, target, rows, bad_rows, ret>>
    /\ UNCHANGED rest_f

\* the end of a failed attempt: time.sleep, then the next attempt or, after the last
\* one, _get returns the failure and fetch_table_rows returns it to its caller
Sleep ==
    /\ pc = "sleep"
    /\ sleeps' = Append(sleeps, [after |-> attempt + 1, tenths |-> SleepDelay(attempt)])
    /\ attempt' = attempt + 1
    /\ IF attempt + 1 < MaxAttempts
       THEN /\ pc' = "cs"
            /\ UNCHANGED <<got, ret>>
       ELSE /\ got' = GotFail(last_err, notes)
            /\ ret' = NetFailure(got')
            /\ pc' = "done"
    /\ UNCHANGED <<cs_avail, notes, last_err, reqs, doc, limit, target, rows, bad_rows>>
    /\ UNCHANGED rest_f

-----------------------------------------------------------------------------
(* fetch_table_rows after _get has returned 200 and a body *)

\* BeautifulSoup(html, "html.parser"), then _pick_target_table(soup)
ParseDocument ==
    /\ pc = "fetched"
    /\ IF doc.markup # "ok"
       THEN /\ ret' = [returned |-> TRUE, rows |-> <<>>, err |-> [tag |-> "HTML"]]
            /\ pc' = "done"
            /\ UNCHANGED target
       ELSE /\ target' = _pick_target_table(doc.tables)
            /\ IF target'.idx = 0
               THEN /\ ret' = [returned |-> TRUE, rows |-> <<>>,
                               err |-> [tag |-> "TABLE", diag |-> target'.diag]]
                    /\ pc' = "done"
               ELSE /\ pc' = "rows"
                    /\ UNCHANGED ret
    /\ UNCHANGED <<cs_avail, attempt, notes, last_err, sleeps, reqs, got, doc, limit, rows, bad_rows>>
    /\ UNCHANGED rest_f

\* the column indexes, the loop over the body rows and the return
ExtractRows ==
    /\ pc = "rows"
    /\ LET heads == target.heads
           idx_diag == [idx_actual   |-> _idx_for(heads, _HEAD_ACTUAL_KEYS, -3),
                        idx_forecast |-> _idx_for(heads, _HEAD_FORECAST_KEYS, -2),
                        idx_previous |-> _idx_for(heads, _HEAD_PREV_KEYS, -1)]
           acc   == RowLoop(doc.tables[target.idx].body, 1, idx_diag, [rows |-> <<>>, bad_rows |-> 0])
       IN  /\ rows' = acc.rows
           /\ bad_rows' = acc.bad_rows
           /\ ret' = IF rows' = <<>>
                     THEN [returned |-> TRUE, rows |-> <<>>,
                           err |-> RowErr(target.diag, idx_diag, bad_rows')]
                     ELSE [returned |-> TRUE, rows |-> FirstN(rows', limit), err |-> NoErr]
    /\ pc' = "done"
    /\ UNCHANGED <<cs_avail, attempt, notes, last_err, sleeps, reqs, got, doc, limit, target>>
    /\ UNCHANGED rest_f

\* fetch_table_rows(url, limit) is called
InitFetch ==
    /\ pc = "cs"
    /\ cs_avail \in BOOLEAN
    /\ limit \in 0..MaxLimit
    /\ attempt = 0 /\ notes = <<>> /\ last_err = NoLastErr /\ sleeps = <<>> /\ reqs = <<>>
    /\ got = NotReturned /\ doc = NoDoc /\ target = NoTarget
    /\ rows = <<>> /\ bad_rows = 0 /\ ret = NotReturned
    /\ spc = "idle" /\ cell = <<>> /\ scalar = NoScalar /\ fv = None /\ fu = "None"
    /\ IdleSignal
    /\ IdleAlt
    /\ IdleIso
    /\ IdleRender
    /\ IdleBot

NextFetch == Cloudscraper \/ Requests \/ Sleep \/ ParseDocument \/ ExtractRows

\* the whole of fetch_table_rows, from the first request on
SpecFetch == InitFetch /\ [][NextFetch]_vars

\* _get has returned 200 and the document at its first request
InitTable ==
    /\ pc = "fetched"
    /\ cs_avail = TRUE
    /\ limit \in 0..MaxLimit
    /\ doc \in Documents
    /\ attempt = 0
    /\ notes = <<HttpNote(0, "cloudscraper", 200)>>
    /\ last_err = NoLastErr
    /\ sleeps = <<>>
    /\ reqs = <<[try |-> 1, client |-> "cloudscraper"]>>
    /\ got = GotOk([status |-> 200, body |-> doc], notes)
    /\ target = NoTarget
    /\ rows = <<>> /\ bad_rows = 0 /\ ret = NotReturned
    /\ spc = "idle" /\ cell = <<>> /\ scalar = NoScalar /\ fv = None /\ fu = "None"
    /\ IdleSignal
    /\ IdleAlt
    /\ IdleIso
    /\ IdleRender
    /\ IdleBot

NextTable == ParseDocument \/ ExtractRows

\* fetch_table_rows on every document, once the document is fetched
SpecTable == InitTable /\ [][NextTable]_vars

-----------------------------------------------------------------------------
(* Claims about the table locator (SpecTable) *)

\* _pick_target_table has run on a document the HTML parser accepted
Located == pc \in {"rows", "done"} /\ doc.markup = "ok"

\* the header scores of the document's tables, in document order
Scores == [i \in 1..Len(doc.tables) |-> ScoreOf(doc.tables[i])]

\* the largest of a sequence of scores (-1 when it is empty)
TopScore(sc) ==
    IF sc = <<>> THEN -1
    ELSE CHOOSE m \in {sc[i] : i \in 1..Len(sc)} : \A i \in 1..Len(sc) : sc[i] <= m

\* C5: the locator returns the table with the highest header score (a score in
\* {0, 5, 10, 15}) whenever that score is above 0; among tables of equal highest
\* score the first in document order is picked; of two tables of which only one has
\* an actual/forecast/previous header row that one is picked, whatever their order.
C5_HighestScoreFirst ==
    Located =>
        LET sc   == Scores
            high == TopScore(sc)
        IN  /\ \A i \in 1..Len(sc) : sc[i] \in {0, 5, 10, 15}
            /\ high > 0 =>
                  /\ target.idx \in 1..Len(sc)
                  /\ sc[target.idx] = high
                  /\ \A j \in 1..(target.idx - 1) : sc[j] < high
                  /\ target.heads = HeadsOf(doc.tables[target.idx])
            /\ \A i, j \in 1..Len(sc) :
                  (Len(sc) = 2 /\ sc[i] > 0 /\ sc[j] = 0) => target.idx = i

\* two different tables tie at 15 behind a table of score 5; the first of the two is picked
C5_Witness ==
    /\ pc = "rows"
    /\ Len(doc.tables) = 3
    /\ ScoreOf(doc.tables[1]) = 5
    /\ ScoreOf(doc.tables[2]) = 15
    /\ ScoreOf(doc.tables[3]) = 15
    /\ doc.tables[2] # doc.tables[3]
    /\ target.idx = 2

\* a body row of 5 or more cells of which some cell contains "%" or a digit
ShapedRow(tr) ==
    /\ Len(tr) >= 5
    /\ \E c \in 1..Len(tr) : \E k \in 1..Len(tr[c]) : tr[c][k] \in Digits \cup {"%"}

\* no table of the document has a header score above 0
NoHeaderHit == \A i \in 1..Len(doc.tables) : Scores[i] = 0

\* the tables with a shaped row among their body rows
ShapedAnywhere ==
    {i \in 1..Len(doc.tables) :
        \E r \in 1..Len(doc.tables[i].body) : ShapedRow(doc.tables[i].body[r])}

\* the tables with a shaped row among their first three body rows
ShapedEarly ==
    {i \in 1..Len(doc.tables) :
        \E r \in 1..Len(doc.tables[i].body) :
            r <= FallbackScanRows /\ ShapedRow(doc.tables[i].body[r])}

\* the smallest element of a non-empty set of indexes
FirstOf(S) == CHOOSE i \in S : \A j \in S : i <= j

\* C6 as stated: when no table has a header score above 0, the locator picks the
\* first table in document order that has at least one body row, at any position
\* among its body rows, with 5 or more cells of which some cell contains "%" or a digit.
C6_FallbackAnyRow ==
    (Located /\ NoHeaderHit /\ ShapedAnywhere # {}) => target.idx = FirstOf(ShapedAnywhere)

\* C6 amended: when no table has a header score above 0, the locator picks the first
\* table in document order that has such a row among its first three body rows.
C6_FallbackFirstRows ==
    (Located /\ NoHeaderHit /\ ShapedEarly # {}) =>
        /\ target.idx = FirstOf(ShapedEarly)
        /\ target.diag.picked.fallback = "rows"

\* the first table has its only shaped row in fourth place; the second table is picked
C6_Witness ==
    /\ pc = "rows"
    /\ Len(doc.tables) = 2
    /\ doc.tables[1] = tDeep
    /\ NoHeaderHit
    /\ target.idx = 2
    /\ target.diag.picked.fallback = "rows"

\* C7: the locator returns no table if and only if the document contains zero
\* tables; when the document has a table and neither the header score nor the
\* row-shape fallback selects one, the last table of the document is returned, with
\* its header list, which may be empty.
C7_NoneIffNoTables ==
    Located =>
        /\ target.idx = 0 <=> doc.tables = <<>>
        /\ (doc.tables # <<>> /\ NoHeaderHit /\ ShapedEarly = {}) =>
              /\ target.idx = Len(doc.tables)
              /\ target.heads = HeadsOf(doc.tables[Len(doc.tables)])
              /\ target.diag.picked.fallback = "last_table"

\* two tables, neither selected by header or shape: the second, headerless one is returned
C7_Witness ==
    /\ pc = "rows"
    /\ Len(doc.tables) = 2
    /\ doc.tables[1] # doc.tables[2]
    /\ target.diag.picked.fallback = "last_table"
    /\ target.idx = 2
    /\ target.heads = <<>>

-----------------------------------------------------------------------------
(* Claims about the row loop of fetch_table_rows (SpecTable) *)

\* the row loop has run
Extracted == pc = "done" /\ doc.markup = "ok" /\ target.idx # 0

\* the body rows of the located table
LocatedBody == doc.tables[target.idx].body

\* a text _to_scalar cannot parse: it holds no digit
NoNumber(t) == \A k \in 1..Len(t) : t[k] \notin Digits

\* C8: every body row of the located table with fewer than 5 cells is dropped and
\* counted in bad_rows, and every body row with 5 or more cells produces exactly one
\* output row, in source order, even when none of its actual/forecast/previous
\* cells can be parsed (those value and unit fields are then None).
C8_ShortRowsDropped ==
    Extracted =>
        LET kept == SelectSeq(LocatedBody, LAMBDA tr : Len(tr) >= 5)
        IN  /\ bad_rows = Cardinality({i \in 1..Len(LocatedBody) : Len(LocatedBody[i]) < 5})
            /\ Len(rows) = Len(kept)
            /\ \A k \in 1..Len(rows) :
                  /\ rows[k].date = _clean(kept[k][1])
                  /\ rows[k].time = _clean(kept[k][2])
                  /\ NoNumber(rows[k].actual) =>
                        rows[k].actual_val = None /\ rows[k].actual_unit = "None"
                  /\ NoNumber(rows[k].forecast) =>
                        rows[k].forecast_val = None /\ rows[k].forecast_unit = "None"
                  /\ NoNumber(rows[k].previous) =>
                        rows[k].previous_val = None /\ rows[k].previous_unit = "None"

\* a 4-cell row, a row of unparseable cells and a parseable row: one dropped, two kept
C8_Witness ==
    /\ Extracted
    /\ LocatedBody = <<rShort, rText, rGood>>
    /\ bad_rows = 1
    /\ Len(rows) = 2
    /\ rows[1].actual_val = None /\ rows[1].forecast_val = None /\ rows[1].previous_val = None
    /\ rows[2].actual_val # None

-----------------------------------------------------------------------------
(* Claims about _get and the network failure of fetch_table_rows (SpecFetch) *)

\* the trace without the entries of a cloudscraper that could not be imported
RequestNotes(ns) ==
    IF cs_avail THEN ns
    ELSE SelectSeq(ns, LAMBDA n : n # FailNote("cloudscraper"))

\* C9: _get makes at most 3 attempts; within each attempt cloudscraper is tried
\* before requests, and requests is tried whenever cloudscraper is unavailable,
\* raises, or returns non-200 or an empty body; it returns at the first 200 response
\* with a non-empty body without making further requests; backoff delays happen only
\* between consecutive attempts (after attempt 1 and after attempt 2), doubling
\* from 0.6 s to 1.2 s.
C9_FetchProtocol ==
    /\ \A i \in 1..Len(reqs) : reqs[i].try \in 1..3
    /\ \A i, j \in 1..Len(reqs) :
          (i < j /\ reqs[i].try = reqs[j].try) =>
              (reqs[i].client = "cloudscraper" /\ reqs[j].client = "requests")
    /\ \A a \in 1..attempt : \E i \in 1..Len(reqs) : reqs[i] = [try |-> a, client |-> "requests"]
    /\ (got # NotReturned /\ got.code = 200) =>
          /\ got.note = notes
          /\ got.html # EmptyBody
          /\ notes[Len(notes)].status = 200
          /\ Len(RequestNotes(notes)) = Len(reqs)
    /\ \A i \in 1..Len(sleeps) :
          /\ sleeps[i].after \in {1, 2}
          /\ sleeps[i].tenths = (IF sleeps[i].after = 1 THEN 6 ELSE 12)

\* every request of all attempts has failed and fetch_table_rows has returned
AllFailed == pc = "done" /\ got # NotReturned /\ got.code = 0

\* C10 as stated: if every request of all attempts ends in a connection failure, a
\* non-200 status or an empty body, fetch_table_rows returns an empty row list with
\* an error that carries the [NET] reason and a trace with one entry for every
\* request made, each entry giving the attempt number, the client and the status code.
C10_TraceEveryRequest ==
    AllFailed =>
        /\ ret.rows = <<>>
        /\ ret.err.tag = "NET"
        /\ Len(ret.err.note) = Len(reqs)
        /\ \A i \in 1..Len(reqs) :
              /\ ret.err.note[i].try = reqs[i].try
              /\ ret.err.note[i].client = reqs[i].client
              /\ ret.err.note[i].kind = "http"

\* C10 amended: the error carries the [NET] reason of the last request and the trace;
\* the trace has one entry for every request made, in order: the entry of a request
\* that was answered gives the attempt number, the client and the status code, the
\* entry of a request that raised gives only the client; a cloudscraper that cannot
\* be imported adds one failure entry per attempt with no request behind it.
C10_NetFailureTrace ==
    AllFailed =>
        /\ ret.rows = <<>>
        /\ ret.err.tag = "NET"
        /\ ret.err.reason.client = "requests"
        /\ ret.err.reason = last_err
        /\ ret.err.note = notes
        /\ Len(RequestNotes(ret.err.note)) = Len(reqs)
        /\ ~cs_avail => Len(ret.err.note) = Len(reqs) + MaxAttempts
        /\ \A i \in 1..Len(reqs) :
              LET n == RequestNotes(ret.err.note)[i]
              IN  /\ n.client = reqs[i].client
                  /\ n.kind \in {"http", "fail"}
                  /\ n.kind = "http" => n.try = reqs[i].try /\ n.status \in {200, 403}
                  /\ n.kind = "fail" => n.try = 0 /\ n.status = 0

\* six requests, some answered with a failure status and some raised
C10_Witness ==
    /\ AllFailed
    /\ cs_avail
    /\ Len(reqs) = 6
    /\ \E i \in 1..Len(ret.err.note) : ret.err.note[i].kind = "fail"
    /\ \E i \in 1..Len(ret.err.note) : ret.err.note[i].kind = "http" /\ ret.err.note[i].try = 3

-----------------------------------------------------------------------------
(* Claims about what fetch_table_rows returns (SpecTable, SpecFetch) *)

\* fetch_table_rows has returned rows and no error
Succeeded == pc = "done" /\ ret # NotReturned /\ ret.err = NoErr

\* C11: on success fetch_table_rows returns exactly the first min(limit, n) of the n
\* rows that survived filtering, in source order; the returned list never has more
\* than limit rows.
C11_FirstLimitRows ==
    Succeeded =>
        LET kept == SelectSeq(LocatedBody, LAMBDA tr : Len(tr) >= 5)
            n    == Len(kept)
        IN  /\ Len(ret.rows) = (IF limit < n THEN limit ELSE n)
            /\ Len(ret.rows) <= limit
            /\ \A k \in 1..Len(ret.rows) :
                  /\ ret.rows[k] = rows[k]
                  /\ ret.rows[k].date = _clean(kept[k][1])

\* three rows survive and the limit is 2: the first two are returned
C11_Witness ==
    /\ Succeeded
    /\ Len(rows) = 3
    /\ limit = 2
    /\ Len(ret.rows) = 2
    /\ ret.rows[1] = rows[1] /\ ret.rows[2] = rows[2]
    /\ rows[1] # rows[2] /\ rows[2] # rows[3]

\* fetch_table_rows has returned an error
Failed == pc = "done" /\ ret # NotReturned /\ ret.err # NoErr

\* C12: every error returned by fetch_table_rows carries the marker of the stage
\* that failed: [NET] when the network attempts are exhausted, [HTML] when the
\* document fails to parse, [TABLE] when the document has no table, [ROW] when a
\* table was located but no row survived the cell-count filter; a [ROW] error also
\* contains the number of rejected rows and the locator diagnostic.
C12_StageMarkers ==
    Failed =>
        /\ ret.rows = <<>>
        /\ ret.err.tag \in {"NET", "HTML", "TABLE", "ROW"}
        /\ ret.err.tag = "NET" <=> got.code # 200
        /\ ret.err.tag = "HTML" <=> (got.code = 200 /\ doc.markup # "ok")
        /\ ret.err.tag = "TABLE" <=> (got.code = 200 /\ doc.markup = "ok" /\ doc.tables = <<>>)
        /\ ret.err.tag = "ROW" <=>
              (got.code = 200 /\ doc.markup = "ok" /\ doc.tables # <<>>
                 /\ \A i \in 1..Len(LocatedBody) : Len(LocatedBody[i]) < 5)
        /\ ret.err.tag = "ROW" =>
              /\ ret.err.bad_rows = Len(LocatedBody)
              /\ ret.err.diag = _pick_target_table(doc.tables).diag

\* the only body row of the located table has 4 cells: a [ROW] error that counts it
C12_Witness ==
    /\ Failed
    /\ ret.err.tag = "ROW"
    /\ Len(LocatedBody) = 1
    /\ ret.err.bad_rows = 1
    /\ ret.err.diag.tables_found = 1

-----------------------------------------------------------------------------
(* Signal evaluation: storage.add_custom_indicator, indicators.get_indicators *)
(* and bot._signal_from_rows                                                  *)

\* str.upper() on the characters that have an upper-case form
UpperMap ==
    [c \in Range(LowerLatin) \cup Range(LowerCyr) |->
        IF c \in Range(LowerLatin)
        THEN UpperLatin[CHOOSE i \in 1..Len(LowerLatin) : LowerLatin[i] = c]
        ELSE UpperCyr[CHOOSE i \in 1..Len(LowerCyr) : LowerCyr[i] = c]]

\* str.upper()
Upper(s) == [i \in 1..Len(s) |-> IF s[i] \in DOMAIN UpperMap THEN UpperMap[s[i]] ELSE s[i]]

\* x < y on floats
Less(x, y) ==
    LET lo == IF x.e < y.e THEN x.e ELSE y.e
    IN  x.m * Pow10(x.e - lo) < y.m * Pow10(y.e - lo)

_rule_long_if_actual_lt_forecast(row) ==
    IF row.actual_val = None \/ row.forecast_val = None THEN "NEUTRAL"
    ELSE IF Less(row.actual_val, row.forecast_val) THEN "LONG" ELSE "SHORT"

_rule_long_if_actual_gt_forecast(row) ==
    IF row.actual_val = None \/ row.forecast_val = None THEN "NEUTRAL"
    ELSE IF Less(row.forecast_val, row.actual_val) THEN "LONG" ELSE "SHORT"

_rule_short_if_actual_gt_forecast(row) ==
    IF row.actual_val = None \/ row.forecast_val = None THEN "NEUTRAL"
    ELSE IF Less(row.forecast_val, row.actual_val) THEN "SHORT" ELSE "LONG"

_rule_fomc_rate(row) ==
    IF row.actual_val = None \/ row.forecast_val = None THEN "NEUTRAL"
    ELSE IF Less(row.actual_val, row.forecast_val) THEN "LONG" ELSE "SHORT"

\* a rule of an indicator: a function of indicators.py, None, or a string
Callable(name) == [kind |-> "callable", f |-> name, code |-> <<>>]
NoRule == [kind |-> "none", f |-> "", code |-> <<>>]

\* rule(top) for a callable rule
CallRule(rule, row) ==
    IF rule.f = "_rule_long_if_actual_lt_forecast" THEN _rule_long_if_actual_lt_forecast(row)
    ELSE IF rule.f = "_rule_long_if_actual_gt_forecast" THEN _rule_long_if_actual_gt_forecast(row)
    ELSE IF rule.f = "_rule_short_if_actual_gt_forecast" THEN _rule_short_if_actual_gt_forecast(row)
    ELSE _rule_fomc_rate(row)

LT == <<"L", "T">>
GT == <<"G", "T">>
FOMC == <<"F", "O", "M", "C">>

\* _RULES: rule code -> function
_RULES ==
    << [code |-> LT,   rule |-> Callable("_rule_long_if_actual_lt_forecast")],
       [code |-> GT,   rule |-> Callable("_rule_long_if_actual_gt_forecast")],
       [code |-> FOMC, rule |-> Callable("_rule_fomc_rate")] >>

\* _RULES.get(code, default)
RulesGet(code, default) ==
    IF \E i \in 1..Len(_RULES) : _RULES[i].code = code
    THEN _RULES[CHOOSE i \in 1..Len(_RULES) : _RULES[i].code = code].rule
    ELSE default

\* PRESET_INDICATORS; the title of a preset is written as its key
PRESET_INDICATORS ==
    [k \in {"CPI", "PPI", "CORE_PCE", "NFP", "RETAIL_SALES", "UNEMPLOYMENT", "JOBLESS_CLAIMS",
            "CRUDE_OIL_INV", "ISM_MANUFACTURING_PMI", "FOMC_RATE"} |->
        [title |-> k,
         rule  |-> IF k \in {"UNEMPLOYMENT", "JOBLESS_CLAIMS", "CRUDE_OIL_INV"}
                   THEN Callable("_rule_long_if_actual_gt_forecast")
                   ELSE IF k = "FOMC_RATE" THEN Callable("_rule_fomc_rate")
                   ELSE Callable("_rule_short_if_actual_gt_forecast")]]

\* _make_key(chat_id, title) of the one custom indicator of the model
CustomKey == "CUSTOM_1"

\* the row add_custom_indicator writes: rule.strip().upper()
CustomRow(rule) == [key |-> CustomKey, title |-> "custom", rule |-> Upper(Strip(rule))]

RECURSIVE MergeCustoms(_, _, _)
\* the loop of get_indicators over the custom rows from row i on
MergeCustoms(customs, i, result) ==
    IF i > Len(customs) THEN result
    ELSE MergeCustoms(customs, i + 1,
            [k \in DOMAIN result \cup {customs[i].key} |->
                IF k = customs[i].key
                THEN [title |-> customs[i].title,
                      rule  |-> RulesGet(Upper(customs[i].rule),
                                         Callable("_rule_long_if_actual_lt_forecast"))]
                ELSE result[k]])

\* bot._signal_from_rows: its local _to_float
FloatOrNone(x) == IF x = None THEN None ELSE x

\* the label _signal_from_rows computes into sig; the labels of its string branches are
\* written in English: RATE_HIKE, RATE_CUT, UNCHANGED, WAIT_RATE, WAIT_ACTUAL_FORECAST,
\* BETTER / WORSE (LT and GT), ON_FORECAST, RULE_UNRECOGNIZED, RULE_NOT_SET
SigLabel(rule, row, a, f, p) ==
    IF rule.kind = "callable" THEN CallRule(rule, row)
    ELSE IF rule.kind = "str"
    THEN IF Upper(rule.code) = FOMC
         THEN IF a = None \/ p = None THEN "WAIT_RATE"
              ELSE IF Less(p, a) THEN "RATE_HIKE"
              ELSE IF Less(a, p) THEN "RATE_CUT"
              ELSE "UNCHANGED"
         ELSE IF Upper(rule.code) = LT
         THEN IF a = None \/ f = None THEN "WAIT_ACTUAL_FORECAST"
              ELSE IF Less(a, f) THEN "BETTER_LT"
              ELSE IF Less(f, a) THEN "WORSE_LT"
              ELSE "ON_FORECAST"
         ELSE IF Upper(rule.code) = GT
         THEN IF a = None \/ f = None THEN "WAIT_ACTUAL_FORECAST"
              ELSE IF Less(f, a) THEN "BETTER_GT"
              ELSE IF Less(a, f) THEN "WORSE_GT"
              ELSE "ON_FORECAST"
         ELSE "RULE_UNRECOGNIZED"
    ELSE "RULE_NOT_SET"

\* the text returned: which of the sentences, the values it shows and the label after
\* the arrow ("" where the sentence has none)
Text(title, form, shown, sig) == [title |-> title, form |-> form, shown |-> shown, sig |-> sig]

\* the last part of _signal_from_rows: the sentence chosen from a, f, p and the rule
SignalText(title, rule, a, f, p, a_str, f_str, p_str, sig) ==
    IF rule.kind = "str" /\ Upper(rule.code) = FOMC
    THEN IF a = None \/ p = None
         THEN Text(title, "wait_rate", <<>>, "")
         ELSE Text(title, "actual_previous", <<a_str, p_str>>, sig)
    ELSE IF a = None /\ f # None THEN Text(title, "not_released", <<f_str>>, "")
    ELSE IF a # None /\ f = None /\ p # None THEN Text(title, "no_forecast_previous", <<a_str, p_str>>, sig)
    ELSE IF a # None /\ f = None THEN Text(title, "no_forecast", <<a_str>>, sig)
    ELSE Text(title, "actual_forecast", <<a_str, f_str>>, sig)

\* _signal_from_rows(rows, ind_key, ind_map) with row = rows[0]; <<>> for no rows
_signal_from_rows(row, key, ind_map) ==
    IF row = <<>> THEN Text(ind_map[key].title, "no_data", <<>>, "")
    ELSE SignalText(ind_map[key].title, ind_map[key].rule,
                    FloatOrNone(row.actual_val), FloatOrNone(row.forecast_val),
                    FloatOrNone(row.previous_val),
                    _fmt_val(row.actual_val, row.actual_unit),
                    _fmt_val(row.forecast_val, row.forecast_unit),
                    _fmt_val(row.previous_val, row.previous_unit),
                    SigLabel(ind_map[key].rule, row, FloatOrNone(row.actual_val),
                             FloatOrNone(row.forecast_val), FloatOrNone(row.previous_val)))

\* the values of the top row: missing, 5, 5.25, 5.5 (percent)
SigValues == {None, Dec(5, 0), Dec(525, -2), Dec(55, -1)}

UnitOf(v) == IF v = None THEN "None" ELSE "percent"

TopRows ==
    {[actual_val |-> a, actual_unit |-> UnitOf(a), forecast_val |-> f, forecast_unit |-> UnitOf(f),
      previous_val |-> p, previous_unit |-> UnitOf(p)] : a \in SigValues, f \in SigValues, p \in SigValues}

\* the rule texts handed to add_custom_indicator
RuleTexts ==
    { <<"L", "T">>, <<"g", "t">>, <<" ", "f", "o", "m", "c">>, <<"X", "X">>, <<"l", "t", "e">>, <<>> }

\* the other components are not running
IdleScalar == spc = "idle" /\ cell = <<>> /\ scalar = NoScalar /\ fv = None /\ fu = "None"

IdleFetch ==
    /\ pc = "idle" /\ cs_avail = TRUE /\ attempt = 0 /\ notes = <<>> /\ last_err = <<>> /\ sleeps = <<>>
    /\ reqs = <<>> /\ got = NotReturned /\ doc = NoDoc /\ limit = 0 /\ target = NoTarget
    /\ rows = <<>> /\ bad_rows = 0 /\ ret = NotReturned

\* a chat with no custom indicator; the rows of some indicator have been fetched
InitSignal ==
    /\ sig_pc = "start"
    /\ custom_indicators = <<>>
    /\ IND = <<>>
    /\ top \in TopRows
    /\ ind_key = ""
    /\ sig_text = <<>>
    /\ IdleScalar
    /\ IdleFetch
    /\ IdleAlt
    /\ IdleIso
    /\ IdleRender
    /\ IdleBot

\* storage.add_custom_indicator(chat_id, title, url, rule)
AddCustomIndicator ==
    /\ sig_pc = "start"
    /\ \E rule \in RuleTexts : custom_indicators' = <<CustomRow(rule)>>
    /\ sig_pc' = "stored"
    /\ UNCHANGED <<IND, top, ind_key, sig_text>>
    /\ UNCHANGED rest_g

\* IND = await get_indicators(chat_id)
GetIndicators ==
    /\ sig_pc \in {"start", "stored"}
    /\ IND' = MergeCustoms(custom_indicators, 1, PRESET_INDICATORS)
    /\ sig_pc' = "merged"
    /\ UNCHANGED <<custom_indicators, top, ind_key, sig_text>>
    /\ UNCHANGED rest_g

\* _signal_from_rows(rows, ind_key, IND) for an indicator of the map
SignalFromRows ==
    /\ sig_pc = "merged"
    /\ \E k \in DOMAIN IND :
          /\ ind_key' = k
          /\ sig_text' = _signal_from_rows(top, k, IND)
    /\ sig_pc' = "done"
    /\ UNCHANGED <<custom_indicators, IND, top>>
    /\ UNCHANGED rest_g

NextSignal == AddCustomIndicator \/ GetIndicators \/ SignalFromRows

SpecSignal == InitSignal /\ [][NextSignal]_vars

-----------------------------------------------------------------------------
(* Claims about the signal evaluator *)

\* _signal_from_rows has returned
Evaluated == sig_pc = "done"

\* the rule code stored for the custom indicator, <<"-">> when there is none
StoredRule == IF custom_indicators = <<>> THEN <<"-">> ELSE custom_indicators[1].rule

\* the indicator evaluated is the custom one and its stored code is the given one
EvaluatedCustom(code) == Evaluated /\ ind_key = CustomKey /\ StoredRule = code

\* actual and forecast of the top row are both present
BothPresent == top.actual_val # None /\ top.forecast_val # None

\* C13: for a custom indicator with rule LT the evaluator gives LONG when actual < forecast,
\* SHORT when actual > forecast and a label that is neither LONG nor SHORT when they are
\* equal; with rule GT it gives LONG when actual > forecast, SHORT when actual < forecast
\* and again a label that is neither LONG nor SHORT on equality.
C13_OnForecastOnEquality ==
    /\ EvaluatedCustom(LT) /\ BothPresent =>
          IF Less(top.actual_val, top.forecast_val) THEN sig_text.sig = "LONG"
          ELSE IF Less(top.forecast_val, top.actual_val) THEN sig_text.sig = "SHORT"
          ELSE sig_text.sig \notin {"LONG", "SHORT"}
    /\ EvaluatedCustom(GT) /\ BothPresent =>
          IF Less(top.forecast_val, top.actual_val) THEN sig_text.sig = "LONG"
          ELSE IF Less(top.actual_val, top.forecast_val) THEN sig_text.sig = "SHORT"
          ELSE sig_text.sig \notin {"LONG", "SHORT"}

\* the indicator evaluated carries the rate rule: the preset FOMC_RATE or a custom
\* indicator stored with the code FOMC
RateRuleEvaluated == Evaluated /\ (ind_key = "FOMC_RATE" \/ EvaluatedCustom(FOMC))

\* the rows that differ from the top row in the forecast only
SameButForecast ==
    {r \in TopRows : r.actual_val = top.actual_val /\ r.previous_val = top.previous_val}

\* C14: the rate rule compares actual with previous and never with forecast: a hike label
\* when actual > previous, a cut label when actual < previous, an unchanged label when
\* they are equal, and the same label for rows that differ in the forecast only; for the
\* preset FOMC_RATE and for custom indicators with rule FOMC.
C14_RateComparesPrevious ==
    RateRuleEvaluated /\ top.actual_val # None /\ top.previous_val # None =>
        /\ sig_text.sig = IF Less(top.previous_val, top.actual_val) THEN "RATE_HIKE"
                          ELSE IF Less(top.actual_val, top.previous_val) THEN "RATE_CUT"
                          ELSE "UNCHANGED"
        /\ \A r \in SameButForecast : _signal_from_rows(r, ind_key, IND).sig = sig_text.sig

\* a value the rule of the evaluated indicator needs is absent from the top row
NeededMissing ==
    IF RateRuleEvaluated
    THEN top.actual_val = None \/ top.previous_val = None
    ELSE top.actual_val = None \/ top.forecast_val = None

\* the text is a waiting message
WaitingText == sig_text.form \in {"not_released", "wait_rate"}

\* C15: signal evaluation never yields LONG or SHORT on missing data: for every rule and
\* every row in which a value the rule needs is absent (actual or forecast; for the rate
\* rule actual or previous) the text returned is a waiting message or has the signal
\* NEUTRAL.
C15_NeutralOnMissing ==
    Evaluated /\ NeededMissing => WaitingText \/ sig_text.sig = "NEUTRAL"

\* the stored code of the custom indicator is none of LT, GT, FOMC
UnknownCode == custom_indicators # <<>> /\ StoredRule \notin {LT, GT, FOMC}

\* C16: a custom indicator stored with a rule code that is not LT, GT or FOMC (the empty
\* code included) is evaluated to a descriptive 'unrecognized rule' label and never as
\* one of the known rules.
C16_UnknownRuleLabelled ==
    Evaluated /\ ind_key = CustomKey /\ UnknownCode => sig_text.sig = "RULE_UNRECOGNIZED"

-----------------------------------------------------------------------------
(* Altseason: classify_altseason *)

\* a slip: the upper bands are tested in the other order
classify_altseason_swapped(v) ==
    IF v <= 25 THEN "Bitcoin season"
    ELSE IF v >= 69 THEN "Approaching altseason"
    ELSE IF v >= 75 THEN "Altseason"
    ELSE "Neutral"

\* classify_altseason(value): the label, written in English
classify_altseason(v) ==
    IF v <= 25 THEN "Bitcoin season"
    ELSE IF v >= 75 THEN "Altseason"
    ELSE IF v >= 69 THEN "Approaching altseason"
    ELSE "Neutral"

\* the integers handed to classify_altseason run from -MaxValue to MaxValue
MaxValue == 110

InitClassify ==
    /\ alt_pc = "value"
    /\ index_value \in (0 - MaxValue)..MaxValue
    /\ alt_label = ""
    /\ url_i = 0 /\ page_text = <<>> /\ index_err = "" /\ index_ret = <<>>
    /\ stats_table = <<>> /\ stats_ret = <<>>
    /\ IdleScalar
    /\ IdleFetch
    /\ IdleSignal
    /\ IdleIso
    /\ IdleRender
    /\ IdleBot

\* label, tip = classify_altseason(value)
Classify ==
    /\ alt_pc = "value"
    /\ alt_label' = classify_altseason(index_value)
    /\ alt_pc' = "classified"
    /\ UNCHANGED <<index_value, url_i, page_text, index_err, index_ret, stats_table, stats_ret>>
    /\ UNCHANGED rest_a

NextClassify == Classify

SpecClassify == InitClassify /\ [][NextClassify]_vars

\* C17: classify_altseason gives 'Bitcoin season' for value <= 25, 'Neutral' for 26..68,
\* 'Approaching altseason' for 69..74 and 'Altseason' for value >= 75; every integer gets
\* exactly one of the four labels.
C17_FourBands ==
    alt_pc = "classified" =>
        /\ alt_label \in {"Bitcoin season", "Neutral", "Approaching altseason", "Altseason"}
        /\ alt_label = "Bitcoin season" <=> index_value <= 25
        /\ alt_label = "Neutral" <=> index_value \in 26..68
        /\ alt_label = "Approaching altseason" <=> index_value \in 69..74
        /\ alt_label = "Altseason" <=> index_value >= 75

\* a value on the edge of a band has been classified
C17_Witness ==
    alt_pc = "classified" /\ index_value = 74 /\ alt_label = "Approaching altseason"

-----------------------------------------------------------------------------
(* Altseason: _find_numbers_0_100, _extract_index_heuristic, fetch_altseason_index *)

\* The visible text of a page is a sequence of tokens separated by one character of white
\* space.  A token is a run of digits (a number) or a piece of text without digits:
\*   TITLE  'Altcoin Season Index'      NOW   'Now'
\*   WORD   'coins'                     LONG  a sentence of 45 characters without keyword
Word(w) == [w |-> w, n |-> 0]
Num(n) == [w |-> "num", n |-> n]

IsNum(tok) == tok.w = "num"

RECURSIVE DigitCount(_)
\* the number of digits of the run
DigitCount(n) == IF n < 10 THEN 1 ELSE 1 + DigitCount(n \div 10)

\* the number of characters of a token
Width(tok) ==
    IF IsNum(tok) THEN DigitCount(tok.n)
    ELSE IF tok.w = "TITLE" THEN 20
    ELSE IF tok.w = "NOW" THEN 3
    ELSE IF tok.w = "WORD" THEN 5
    ELSE 45

RECURSIVE Pos(_, _)
\* m.start() of token k: the offset of its first character in the text
Pos(text, k) == IF k <= 1 THEN 0 ELSE Pos(text, k - 1) + Width(text[k - 1]) + 1

\* a slip: every run of one to three digits is kept, whatever its value
InRangeAny(v) == v >= 0

\* 0 <= v <= 100
InRange(v) == 0 <= v /\ v <= 100

RECURSIVE NumbersFrom(_, _)
\* the loop of _find_numbers_0_100 from token k on: runs of 1..3 digits with a value in range
NumbersFrom(text, k) ==
    IF k > Len(text) THEN <<>>
    ELSE IF IsNum(text[k]) /\ DigitCount(text[k].n) <= 3 /\ InRange(text[k].n)
         THEN <<[v |-> text[k].n, pos |-> Pos(text, k)]>> \o NumbersFrom(text, k + 1)
         ELSE NumbersFrom(text, k + 1)

\* _find_numbers_0_100(text): the (value, position) pairs in text order
_find_numbers_0_100(text) == NumbersFrom(text, 1)

\* the tokens after token k up to the first run of digits hold at most 40 characters,
\* separators included: [^\d]{0,40}(\d{1,3}) matches after the title at k
DigitsWithin40(text, k) ==
    \E n \in (k + 1)..Len(text) :
        /\ IsNum(text[n])
        /\ \A j \in (k + 1)..(n - 1) : ~IsNum(text[j])
        /\ Pos(text, n) - (Pos(text, k) + Width(text[k])) <= 40

\* the run of digits that follows token k
NextNum(text, k) == text[CHOOSE n \in (k + 1)..Len(text) :
                            IsNum(text[n]) /\ \A j \in (k + 1)..(n - 1) : ~IsNum(text[j])].n

RECURSIVE FirstThreeDigits(_)
\* int(m.group(2)): (\d{1,3}) takes the first three digits of the run
FirstThreeDigits(n) == IF n < 1000 THEN n ELSE FirstThreeDigits(n \div 10)

\* re.search of the title pattern: the tokens where it can match, leftmost first
TitleMatches(text) == {k \in 1..Len(text) : text[k].w = "TITLE" /\ DigitsWithin40(text, k)}

Min(S) == CHOOSE x \in S : \A y \in S : x <= y

\* the positions of the anchor keywords found in the text
Anchors(text) == {Pos(text, k) : k \in {j \in 1..Len(text) : text[j].w \in {"TITLE", "NOW"}}}

\* dist(npos): the distance to the nearest anchor
Dist(npos, anchors) == Min({Abs(npos - a) : a \in anchors})

\* filtered: the numbers other than 0, 25, 75, 100
Filtered(nums) == SelectSeq(nums, LAMBDA t : t.v \notin {0, 25, 75, 100})

\* min(cands, key=dist): the first of the nearest
Nearest(cands, anchors) ==
    cands[Min({i \in 1..Len(cands) :
                 \A j \in 1..Len(cands) : Dist(cands[i].pos, anchors) <= Dist(cands[j].pos, anchors)})]

\* the numbers the last loop of _extract_index_heuristic accepts
Reasonable(nums) == SelectSeq(nums, LAMBDA t : 30 <= t.v /\ t.v <= 90 /\ t.v \notin {25, 75})

Found(v) == [ok |-> TRUE, v |-> v]
NotFound == [ok |-> FALSE, v |-> 0]

\* _extract_index_heuristic after the title pattern gave nothing
ByAnchors(nums, anchors) ==
    IF nums = <<>> THEN NotFound
    ELSE IF anchors # {}
         THEN Found(Nearest(IF Filtered(nums) # <<>> THEN Filtered(nums) ELSE nums, anchors).v)
    ELSE IF Reasonable(nums) # <<>> THEN Found(Reasonable(nums)[1].v)
    ELSE Found(nums[1].v)

\* _extract_index_heuristic(html) on the visible text: the value, or NotFound for ValueError
_extract_index_heuristic(text) ==
    IF TitleMatches(text) # {} /\ InRange(FirstThreeDigits(NextNum(text, Min(TitleMatches(text)))))
    THEN Found(FirstThreeDigits(NextNum(text, Min(TitleMatches(text)))))
    ELSE ByAnchors(_find_numbers_0_100(text), Anchors(text))

ALTSEASON_URLS == <<"en", "ru", "root">>

\* longest page text, in tokens
MaxTokens == 3

PageTokens ==
    {Word("TITLE"), Word("NOW"), Word("WORD"), Word("LONG"),
     Num(5), Num(25), Num(50), Num(75), Num(250), Num(1000)}

PageTexts == UNION {[1..n -> PageTokens] : n \in 0..MaxTokens}

InitIndex ==
    /\ alt_pc = "loop"
    /\ url_i = 1
    /\ page_text = <<>>
    /\ index_err = ""
    /\ index_ret = <<>>
    /\ index_value = 0 /\ alt_label = "" /\ stats_table = <<>> /\ stats_ret = <<>>
    /\ IdleScalar
    /\ IdleFetch
    /\ IdleSignal
    /\ IdleIso
    /\ IdleRender
    /\ IdleBot

\* one turn of the loop in which _fetch_html raises
FetchHtmlFails ==
    /\ alt_pc = "loop" /\ url_i <= Len(ALTSEASON_URLS)
    /\ index_err' = "http error"
    /\ url_i' = url_i + 1
    /\ UNCHANGED <<alt_pc, index_value, alt_label, page_text, index_ret, stats_table, stats_ret>>
    /\ UNCHANGED rest_a

\* one turn of the loop in which _fetch_html returns a page: the value is returned, or
\* _extract_index_heuristic raises and the loop goes on
ExtractIndex ==
    /\ alt_pc = "loop" /\ url_i <= Len(ALTSEASON_URLS)
    /\ \E text \in PageTexts :
          IF _extract_index_heuristic(text).ok
          THEN /\ page_text' = text
               /\ index_ret' = [kind |-> "value", value |-> _extract_index_heuristic(text).v,
                                url |-> ALTSEASON_URLS[url_i]]
               /\ alt_pc' = "returned"
               /\ UNCHANGED <<url_i, index_err>>
          ELSE /\ index_err' = "no numbers 0-100"
               /\ url_i' = url_i + 1
               /\ UNCHANGED <<alt_pc, page_text, index_ret>>
    /\ UNCHANGED <<index_value, alt_label, stats_table, stats_ret>>
    /\ UNCHANGED rest_a

\* the loop is over: raise ValueError(last_error)
RaiseNotFound ==
    /\ alt_pc = "loop" /\ url_i > Len(ALTSEASON_URLS)
    /\ index_ret' = [kind |-> "ValueError", value |-> 0, url |-> index_err]
    /\ alt_pc' = "raised"
    /\ UNCHANGED <<url_i, page_text, index_err, index_value, alt_label, stats_table, stats_ret>>
    /\ UNCHANGED rest_a

NextIndex == FetchHtmlFails \/ ExtractIndex \/ RaiseNotFound

SpecIndex == InitIndex /\ [][NextIndex]_vars

-----------------------------------------------------------------------------
(* Claims about the altseason index *)

\* fetch_altseason_index has returned a value
IndexReturned == alt_pc = "returned"

\* strategy 1 as stated: the number that follows the index title, when it is in [0,100]
AfterTitle(text) ==
    IF TitleMatches(text) # {} /\ InRange(NextNum(text, Min(TitleMatches(text))))
    THEN Found(NextNum(text, Min(TitleMatches(text))))
    ELSE NotFound

\* strategy 2 as stated: with an anchor in the text, the nearest in-range number that is
\* none of 0, 25, 75, 100
NearAnchor(text) ==
    IF Anchors(text) # {} /\ Filtered(_find_numbers_0_100(text)) # <<>>
    THEN Found(Nearest(Filtered(_find_numbers_0_100(text)), Anchors(text)).v)
    ELSE NotFound

\* strategy 3 as stated: the first number in [30,90] other than 25 and 75
FirstReasonable(text) ==
    IF Reasonable(_find_numbers_0_100(text)) # <<>>
    THEN Found(Reasonable(_find_numbers_0_100(text))[1].v)
    ELSE NotFound

\* strategy 4 as stated: the first number found
FirstFound(text) ==
    IF _find_numbers_0_100(text) # <<>> THEN Found(_find_numbers_0_100(text)[1].v) ELSE NotFound

\* the result of the first strategy, in the order 1, 2, 3, 4, that yields a value
ByPriority(text) ==
    IF AfterTitle(text).ok THEN AfterTitle(text)
    ELSE IF NearAnchor(text).ok THEN NearAnchor(text)
    ELSE IF FirstReasonable(text).ok THEN FirstReasonable(text)
    ELSE FirstFound(text)

\* C18: the value extracted from a page is the result of the first of four strategies
\* that yields one: (1) the number directly following the index title when it is in
\* [0,100]; (2) when an anchor occurs, the in-range number nearest to an anchor, 0, 25, 75
\* and 100 excluded; (3) the first number in [30,90] other than 25 and 75; (4) the first
\* number found.
C18_StrictPriority ==
    IndexReturned => Found(index_ret.value) = ByPriority(page_text)

\* C19: every value fetch_altseason_index returns is an integer in 0..100 taken from one
\* of the source URLs, and when every URL has failed the call ends in a ValueError
\* instead of returning.
C19_IndexInRange ==
    /\ IndexReturned =>
          /\ index_ret.kind = "value"
          /\ index_ret.value \in 0..100
          /\ index_ret.url \in Range(ALTSEASON_URLS)
    /\ url_i > Len(ALTSEASON_URLS) => ~IndexReturned
    /\ alt_pc = "raised" =>
          /\ index_ret.kind = "ValueError"
          /\ url_i > Len(ALTSEASON_URLS)
          /\ index_err # ""

\* the third URL gave the value after the first two had failed, one of them with a page
\* that holds no number in 0..100
C19_Witness ==
    /\ IndexReturned /\ url_i = Len(ALTSEASON_URLS) /\ index_err = "no numbers 0-100"
    /\ index_ret.value = 100
    /\ \E k \in 1..Len(page_text) : page_text[k] = Num(1000)

-----------------------------------------------------------------------------
(* Altseason: _normalize, _parse_int, _match_key, fetch_altseason_stats *)

RECURSIVE CollapseFrom(_, _)
\* re.sub(r"\s+", " ", s) from position i on
CollapseFrom(s, i) ==
    IF i > Len(s) THEN <<>>
    ELSE IF s[i] \in SpaceChars
         THEN IF i > 1 /\ s[i - 1] \in SpaceChars THEN CollapseFrom(s, i + 1)
              ELSE <<" ">> \o CollapseFrom(s, i + 1)
         ELSE <<s[i]>> \o CollapseFrom(s, i + 1)

\* _normalize(s)
_normalize(s) == CollapseFrom(Lower(Strip(s)), 1)

\* int(t) succeeds on what re.sub(r"[^\d-]", "", s) leaves: an optional minus and digits
IntLiteral(t) ==
    /\ t # <<>>
    /\ \A i \in 2..Len(t) : t[i] \in Digits
    /\ IF t[1] = "-" THEN Len(t) > 1 ELSE t[1] \in Digits

IntOf(t) == IF t[1] = "-" THEN 0 - DigitsToInt(Tail(t)) ELSE DigitsToInt(t)

\* the texts _parse_int takes for 'no value'
NoValueTexts == { <<"n", "o", "n", "e">>, <<"n", "/", "a">>, <<"-">>, <<"EMDASH">> }

\* _parse_int on a stripped text
ParseStripped(t) ==
    IF t = <<>> \/ Lower(t) \in NoValueTexts THEN None
    ELSE IF IntLiteral(SelectSeq(t, LAMBDA c : c \in Digits \cup {"-"}))
         THEN [k |-> "int", v |-> IntOf(SelectSeq(t, LAMBDA c : c \in Digits \cup {"-"}))]
         ELSE None

\* _parse_int(s)
_parse_int(s) == ParseStripped(Strip(s))

\* _LABEL_VARIANTS: the exact labels of each key, in the order of the dictionary
_LABEL_VARIANTS ==
    << [key |-> "days_since_last", variants |->
          << <<"d", "a", "y", "s", " ", "s", "i", "n", "c", "e", " ", "l", "a", "s", "t", " ", "s", "e", "a", "s", "o", "n">>,
             <<"cy_d", "cy_n", "cy_e", "cy_j", " ", "cy_s", " ", "cy_p", "cy_r", "cy_o", "cy_sh", "cy_l", "cy_o", "cy_g", "cy_o", " ", "cy_s", "cy_e", "cy_z", "cy_o", "cy_n", "cy_a">> >>],
       [key |-> "avg_between", variants |->
          << <<"a", "v", "e", "r", "a", "g", "e", " ", "d", "a", "y", "s", " ", "b", "e", "t", "w", "e", "e", "n", " ", "s", "e", "a", "s", "o", "n", "s">>,
             <<"cy_s", "cy_r", "cy_e", "cy_d", "cy_n", "cy_e", "cy_e", " ", "cy_k", "cy_o", "cy_l", "cy_i", "cy_ch", "cy_e", "cy_s", "cy_t", "cy_v", "cy_o", " ", "cy_d", "cy_n", "cy_e", "cy_j", " ", "cy_m", "cy_e", "cy_zh", "cy_d", "cy_u", " ", "cy_s", "cy_e", "cy_z", "cy_o", "cy_n", "cy_a", "cy_m", "cy_i">> >>],
       [key |-> "longest_without", variants |->
          << <<"l", "o", "n", "g", "e", "s", "t", " ", "p", "e", "r", "i", "o", "d", " ", "w", "i", "t", "h", "o", "u", "t", " ", "a", " ", "s", "e", "a", "s", "o", "n">>,
             <<"cy_s", "cy_a", "cy_m", "cy_a", "cy_ya", " ", "cy_d", "cy_l", "cy_i", "cy_n", "cy_n", "cy_a", "cy_ya", " ", "cy_s", "cy_e", "cy_r", "cy_i", "cy_ya", " ", "cy_b", "cy_e", "cy_z", " ", "cy_s", "cy_e", "cy_z", "cy_o", "cy_n", "cy_a">> >>],
       [key |-> "avg_length", variants |->
          << <<"a", "v", "e", "r", "a", "g", "e", " ", "s", "e", "a", "s", "o", "n", " ", "l", "e", "n", "g", "t", "h", " ", "(", "d", "a", "y", "s", ")">>,
             <<"a", "v", "e", "r", "a", "g", "e", " ", "l", "e", "n", "g", "t", "h", " ", "o", "f", " ", "s", "e", "a", "s", "o", "n", " ", "(", "d", "a", "y", "s", ")">>,
             <<"cy_s", "cy_r", "cy_e", "cy_d", "cy_n", "cy_ya", "cy_ya", " ", "cy_p", "cy_r", "cy_o", "cy_d", "cy_o", "cy_l", "cy_zh", "cy_i", "cy_t", "cy_e", "cy_l", "cy_soft", "cy_n", "cy_o", "cy_s", "cy_t", "cy_soft", " ", "cy_s", "cy_e", "cy_z", "cy_o", "cy_n", "cy_a", " ", "(", "cy_d", "cy_n", "cy_e", "cy_j", ")">>,
             <<"cy_s", "cy_r", "cy_e", "cy_d", "cy_n", "cy_ya", "cy_ya", " ", "cy_d", "cy_l", "cy_i", "cy_t", "cy_e", "cy_l", "cy_soft", "cy_n", "cy_o", "cy_s", "cy_t", "cy_soft", " ", "cy_s", "cy_e", "cy_z", "cy_o", "cy_n", "cy_a", " ", "(", "cy_d", "cy_n", "cy_e", "cy_j", ")">> >>],
       [key |-> "longest_length", variants |->
          << <<"l", "o", "n", "g", "e", "s", "t", " ", "s", "e", "a", "s", "o", "n", " ", "(", "d", "a", "y", "s", ")">>,
             <<"cy_s", "cy_a", "cy_m", "cy_y", "cy_j", " ", "cy_d", "cy_l", "cy_i", "cy_n", "cy_n", "cy_y", "cy_j", " ", "cy_s", "cy_e", "cy_z", "cy_o", "cy_n", " ", "(", "cy_d", "cy_n", "cy_i", ")">> >>],
       [key |-> "total_days", variants |->
          << <<"t", "o", "t", "a", "l", " ", "n", "u", "m", "b", "e", "r", " ", "o", "f", " ", "d", "a", "y", "s", " ", "i", "n", " ", "s", "e", "a", "s", "o", "n">>,
             <<"t", "o", "t", "a", "l", " ", "d", "a", "y", "s", " ", "o", "f", " ", "s", "e", "a", "s", "o", "n">>,
             <<"cy_o", "cy_b", "cy_shch", "cy_e", "cy_e", " ", "cy_k", "cy_o", "cy_l", "cy_i", "cy_ch", "cy_e", "cy_s", "cy_t", "cy_v", "cy_o", " ", "cy_d", "cy_n", "cy_e", "cy_j", " ", "cy_s", "cy_e", "cy_z", "cy_o", "cy_n", "cy_a">> >>] >>

\* _KEYWORDS: the keyword bundles of each key, in the order of the dictionary
_KEYWORDS ==
    << [key |-> "days_since_last", bundles |->
          << << <<"d", "a", "y", "s">>, <<"s", "i", "n", "c", "e">>, <<"l", "a", "s", "t">> >>,
             << <<"cy_d", "cy_n", "cy_e", "cy_j">>, <<"cy_p", "cy_r", "cy_o", "cy_sh", "cy_l", "cy_o", "cy_g", "cy_o">> >> >>],
       [key |-> "avg_between", bundles |->
          << << <<"a", "v", "e", "r", "a", "g", "e">>, <<"b", "e", "t", "w", "e", "e", "n">> >>,
             << <<"cy_s", "cy_r", "cy_e", "cy_d", "cy_n">>, <<"cy_m", "cy_e", "cy_zh", "cy_d", "cy_u">> >> >>],
       [key |-> "longest_without", bundles |->
          << << <<"l", "o", "n", "g", "e", "s", "t">>, <<"w", "i", "t", "h", "o", "u", "t">> >>,
             << <<"cy_s", "cy_a", "cy_m", "cy_a", "cy_ya">>, <<"cy_d", "cy_l", "cy_i", "cy_n">>, <<"cy_b", "cy_e", "cy_z">> >> >>],
       [key |-> "avg_length", bundles |->
          << << <<"a", "v", "e", "r", "a", "g", "e">>, <<"l", "e", "n", "g", "t", "h">> >>,
             << <<"cy_s", "cy_r", "cy_e", "cy_d", "cy_n">>, <<"cy_d", "cy_l", "cy_i", "cy_t", "cy_e", "cy_l", "cy_soft">> >> >>],
       [key |-> "longest_length", bundles |->
          << << <<"l", "o", "n", "g", "e", "s", "t">>, <<"s", "e", "a", "s", "o", "n">> >>,
             << <<"cy_s", "cy_a", "cy_m", "cy_y", "cy_j">>, <<"cy_d", "cy_l", "cy_i", "cy_n">>, <<"cy_s", "cy_e", "cy_z", "cy_o", "cy_n">> >> >>],
       [key |-> "total_days", bundles |->
          << << <<"t", "o", "t", "a", "l">>, <<"n", "u", "m", "b", "e", "r">>, <<"d", "a", "y", "s">> >>,
             << <<"cy_o", "cy_b", "cy_shch", "cy_e", "cy_e">>, <<"cy_k", "cy_o", "cy_l", "cy_i", "cy_ch">>, <<"cy_d", "cy_n", "cy_e", "cy_j">> >> >>] >>

\* no key: what _match_key returns for a label it does not know
NoKey == ""

\* the entries of _LABEL_VARIANTS with a variant inside the label
ExactHits(label_norm) ==
    {i \in 1..Len(_LABEL_VARIANTS) :
        \E j \in 1..Len(_LABEL_VARIANTS[i].variants) :
            IsSubstr(_normalize(_LABEL_VARIANTS[i].variants[j]), label_norm)}

\* the entries of _KEYWORDS with a bundle whose keywords are all inside the label
FuzzyHits(label_norm) ==
    {i \in 1..Len(_KEYWORDS) :
        \E j \in 1..Len(_KEYWORDS[i].bundles) :
            \A n \in 1..Len(_KEYWORDS[i].bundles[j]) :
                IsSubstr(_KEYWORDS[i].bundles[j][n], label_norm)}

\* the key of the first entry hit, exact labels before keyword bundles
FirstKey(exact, fuzzy) ==
    IF exact # {} THEN _LABEL_VARIANTS[Min(exact)].key
    ELSE IF fuzzy # {} THEN _KEYWORDS[Min(fuzzy)].key
    ELSE NoKey

\* _match_key(label_norm)
_match_key(label_norm) == FirstKey(ExactHits(label_norm), FuzzyHits(label_norm))

\* required, in the order of sorted(required)
Required ==
    <<"avg_between", "avg_length", "days_since_last", "longest_length", "longest_without", "total_days">>

\* stats[key] = {"alt": alt_v, "btc": btc_v} on the dictionary so far
Put(stats, key, alt_v, btc_v) ==
    [k \in DOMAIN stats \cup {key} |-> IF k = key THEN [alt |-> alt_v, btc |-> btc_v] ELSE stats[k]]

RECURSIVE StatsLoop(_, _, _)

\* one row of three cells: if key: stats[key] = {...}
StatsRow(trs, i, stats, key) ==
    IF key = NoKey THEN StatsLoop(trs, i + 1, stats)
    ELSE StatsLoop(trs, i + 1, Put(stats, key, _parse_int(trs[i][2]), _parse_int(trs[i][3])))

\* the loop over target_table.find_all("tr")[1:] from row i on
StatsLoop(trs, i, stats) ==
    IF i > Len(trs) THEN stats
    ELSE IF Len(trs[i]) # 3 THEN StatsLoop(trs, i + 1, stats)
    ELSE StatsRow(trs, i, stats, _match_key(_normalize(trs[i][1])))

\* a slip: only the first required key that is absent is named
MissingFirstOnly(stats) ==
    IF SelectSeq(Required, LAMBDA k : k \notin DOMAIN stats) = <<>> THEN <<>>
    ELSE <<Head(SelectSeq(Required, LAMBDA k : k \notin DOMAIN stats))>>

\* missing = [k for k in sorted(required) if k not in stats]
MissingKeys(stats) == SelectSeq(Required, LAMBDA k : k \notin DOMAIN stats)

StatsError(what, missing) == [kind |-> "RuntimeError", what |-> what, missing |-> missing, stats |-> <<>>]

\* the end of fetch_altseason_stats: raise on missing keys, else return stats
StatsEnd(stats, missing) ==
    IF missing # <<>> THEN StatsError("metrics not recognized", missing)
    ELSE [kind |-> "stats", what |-> "", missing |-> <<>>, stats |-> stats]

\* what fetch_altseason_stats does with the dictionary the loop built
StatsResult(stats) == StatsEnd(stats, MissingKeys(stats))

Altcoin == <<"a", "l", "t", "c", "o", "i", "n">>
Bitcoin == <<"b", "i", "t", "c", "o", "i", "n">>
AltRu == <<"cy_a", "cy_l", "cy_soft", "cy_t">>
BitcoinRu == <<"cy_b", "cy_i", "cy_t", "cy_k", "cy_o", "cy_i", "cy_n">>

\* the first row of a table has three cells, the second naming altcoins and the third bitcoin
IsAltBtc(cols) ==
    /\ Len(cols) = 3
    /\ \/ IsSubstr(Altcoin, _normalize(cols[2])) /\ IsSubstr(Bitcoin, _normalize(cols[3]))
       \/ IsSubstr(AltRu, _normalize(cols[2])) /\ IsSubstr(BitcoinRu, _normalize(cols[3]))

\* A page: its tables in document order, each with the cells of its first row and its other
\* rows, and the place of the index title: hdr = k when the title stands before table k,
\* 0 when the page has no title.  The tables that follow the title are taken to lie within
\* the 200 nodes the search walks.
TablesAfterTitle(d) == {i \in 1..Len(d.tables) : d.hdr # 0 /\ i >= d.hdr /\ IsAltBtc(d.tables[i].first)}
TablesAnywhere(d) == {i \in 1..Len(d.tables) : IsAltBtc(d.tables[i].first)}

\* target_table: the index of the table chosen, 0 for None
TargetTable(d) ==
    IF TablesAfterTitle(d) # {} THEN Min(TablesAfterTitle(d))
    ELSE IF TablesAnywhere(d) # {} THEN Min(TablesAnywhere(d))
    ELSE 0

\* the rows a table body is drawn from: the six metrics under their English labels, a row
\* of another kind, a label only the keywords match, and a row of two cells
RowPool ==
    << << <<"D", "a", "y", "s", " ", "s", "i", "n", "c", "e", " ", "l", "a", "s", "t", " ", "s", "e", "a", "s", "o", "n">>,
         <<"2", "5", "9">>,
         <<"4", "7">> >>,
       << <<"A", "v", "e", "r", "a", "g", "e", " ", "d", "a", "y", "s", " ", "b", "e", "t", "w", "e", "e", "n", " ", "s", "e", "a", "s", "o", "n", "s">>,
         <<"6", "6">>,
         <<"1", "7">> >>,
       << <<"L", "o", "n", "g", "e", "s", "t", " ", "p", "e", "r", "i", "o", "d", " ", " ", "w", "i", "t", "h", "o", "u", "t", " ", "a", " ", "s", "e", "a", "s", "o", "n">>,
         <<"4", "8", "6">>,
         <<"1", "9", "1">> >>,
       << <<"A", "v", "e", "r", "a", "g", "e", " ", "s", "e", "a", "s", "o", "n", " ", "l", "e", "n", "g", "t", "h", " ", "(", "d", "a", "y", "s", ")">>,
         <<"1", "8">>,
         <<"1", "0">> >>,
       << <<"L", "o", "n", "g", "e", "s", "t", " ", "s", "e", "a", "s", "o", "n", " ", "(", "d", "a", "y", "s", ")">>,
         <<"1", "1", "7">>,
         <<"1", "2", "6">> >>,
       << <<"T", "o", "t", "a", "l", " ", "n", "u", "m", "b", "e", "r", " ", "o", "f", " ", "d", "a", "y", "s", " ", "i", "n", " ", "s", "e", "a", "s", "o", "n">>,
         <<"4", "0", "4">>,
         <<"9", "5", "3">> >>,
       << <<"S", "h", "a", "r", "e", " ", "o", "f", " ", "t", "o", "p", " ", "c", "o", "i", "n", "s">>,
         <<"7", "5">>,
         <<"2", "5">> >>,
       << <<"N", "u", "m", "b", "e", "r", " ", "o", "f", " ", "t", "o", "t", "a", "l", " ", "d", "a", "y", "s">>,
         <<"n", "/", "a">>,
         <<"1", ",", "2", "3", "4">> >>,
       << <<"L", "o", "n", "g", "e", "s", "t", " ", "s", "e", "a", "s", "o", "n", " ", "(", "d", "a", "y", "s", ")">>,
         <<"9", "9">> >> >>

RECURSIVE PickRows(_, _)
\* the rows of RowPool whose number is in S, in the order of the pool, from row i on
PickRows(S, i) ==
    IF i > Len(RowPool) THEN <<>>
    ELSE (IF i \in S THEN <<RowPool[i]>> ELSE <<>>) \o PickRows(S, i + 1)

StatsBodies == {PickRows(S, 1) : S \in SUBSET (1..Len(RowPool))}

AltBtcHeader == << <<>>, <<"A", "l", "t", "c", "o", "i", "n">>, <<"B", "i", "t", "c", "o", "i", "n">> >>
AltBtcHeaderRu == << <<>>, <<"CY_A", "cy_l", "cy_soft", "cy_t", "cy_y">>,
                     <<"CY_B", "cy_i", "cy_t", "cy_k", "cy_o", "cy_i", "cy_n">> >>
OtherHeader == << <<"C", "o", "i", "n">>, <<"B", "i", "t", "c", "o", "i", "n">>, <<"A", "l", "t", "c", "o", "i", "n">> >>

\* a table of the right shape that stands first on the page and holds one metric only
ShortTable == [first |-> AltBtcHeader, body |-> <<RowPool[1]>>]

\* the whole pool, and the pool without its third and fifth row
FewBodies == {RowPool, PickRows((1..Len(RowPool)) \ {3, 5}, 1)}

StatsDocs ==
    {[hdr |-> 1, tables |-> <<[first |-> AltBtcHeader, body |-> b]>>] : b \in StatsBodies}
    \cup {[hdr |-> 0, tables |-> <<[first |-> f, body |-> b]>>] :
            f \in {AltBtcHeader, AltBtcHeaderRu, OtherHeader}, b \in FewBodies}
    \cup {[hdr |-> h, tables |-> <<ShortTable, [first |-> AltBtcHeader, body |-> b]>>] :
            h \in 0..2, b \in FewBodies}

InitStats ==
    /\ alt_pc = "stats"
    /\ stats_table = <<>>
    /\ stats_ret = <<>>
    /\ index_value = 0 /\ alt_label = "" /\ url_i = 0 /\ page_text = <<>>
    /\ index_err = "" /\ index_ret = <<>>
    /\ IdleScalar
    /\ IdleFetch
    /\ IdleSignal
    /\ IdleIso
    /\ IdleRender
    /\ IdleBot

\* fetch_altseason_stats when no URL gives a page
StatsLoadFails ==
    /\ alt_pc = "stats"
    /\ stats_ret' = StatsError("page not loaded", <<>>)
    /\ alt_pc' = "stats raised"
    /\ UNCHANGED <<stats_table, index_value, alt_label, url_i, page_text, index_err, index_ret>>
    /\ UNCHANGED rest_a

\* fetch_altseason_stats on the page of the first URL that answers
FetchAltseasonStats ==
    /\ alt_pc = "stats"
    /\ \E d \in StatsDocs :
          IF TargetTable(d) = 0
          THEN /\ stats_ret' = StatsError("table not found", <<>>)
               /\ alt_pc' = "stats raised"
               /\ UNCHANGED stats_table
          ELSE /\ stats_table' = d.tables[TargetTable(d)].body
               /\ stats_ret' = StatsResult(StatsLoop(d.tables[TargetTable(d)].body, 1, <<>>))
               /\ alt_pc' = IF stats_ret'.kind = "stats" THEN "stats returned" ELSE "stats raised"
    /\ UNCHANGED <<index_value, alt_label, url_i, page_text, index_err, index_ret>>
    /\ UNCHANGED rest_a

NextStats == StatsLoadFails \/ FetchAltseasonStats

SpecStats == InitStats /\ [][NextStats]_vars

-----------------------------------------------------------------------------
(* Claims about the altseason statistics *)

\* the target table was found and its rows were read
TableRead ==
    \/ alt_pc = "stats returned"
    \/ alt_pc = "stats raised" /\ stats_ret.what = "metrics not recognized"

\* the rows of the target table the loop takes: three cells and a label of one of the keys
TakenRow(tr) == Len(tr) = 3 /\ _match_key(_normalize(tr[1])) # NoKey

\* the keys matched by some row of the target table
MatchedKeys ==
    {_match_key(_normalize(stats_table[i][1])) : i \in {j \in 1..Len(stats_table) : TakenRow(stats_table[j])}}

UnmatchedKeys == Range(Required) \ MatchedKeys

-----------------------------------------------------------------------------
(* _to_iso and the release_dt_iso key of a row (SpecIso) *)

\* the table _MONTHS, in source order
_MONTHS ==
    << [name |-> <<"j", "a", "n">>, num |-> 1],
       [name |-> <<"f", "e", "b">>, num |-> 2],
       [name |-> <<"m", "a", "r">>, num |-> 3],
       [name |-> <<"a", "p", "r">>, num |-> 4],
       [name |-> <<"m", "a", "y">>, num |-> 5],
       [name |-> <<"j", "u", "n">>, num |-> 6],
       [name |-> <<"j", "u", "l">>, num |-> 7],
       [name |-> <<"a", "u", "g">>, num |-> 8],
       [name |-> <<"s", "e", "p">>, num |-> 9],
       [name |-> <<"o", "c", "t">>, num |-> 10],
       [name |-> <<"n", "o", "v">>, num |-> 11],
       [name |-> <<"d", "e", "c">>, num |-> 12],
       [name |-> <<"cy_ya", "cy_n", "cy_v">>, num |-> 1],
       [name |-> <<"cy_f", "cy_e", "cy_v">>, num |-> 2],
       [name |-> <<"cy_m", "cy_a", "cy_r">>, num |-> 3],
       [name |-> <<"cy_a", "cy_p", "cy_r">>, num |-> 4],
       [name |-> <<"cy_m", "cy_a", "cy_j">>, num |-> 5],
       [name |-> <<"cy_i", "cy_yu", "cy_n">>, num |-> 6],
       [name |-> <<"cy_i", "cy_yu", "cy_l">>, num |-> 7],
       [name |-> <<"cy_a", "cy_v", "cy_g">>, num |-> 8],
       [name |-> <<"cy_s", "cy_e", "cy_n">>, num |-> 9],
       [name |-> <<"cy_n", "cy_o", "cy_ya">>, num |-> 11],
       [name |-> <<"cy_d", "cy_e", "cy_k">>, num |-> 12] >>

\* _MONTHS.get(mon_txt)
MonthsGet(mon_txt) ==
    IF \E i \in 1..Len(_MONTHS) : _MONTHS[i].name = mon_txt
    THEN [k |-> "int", v |-> _MONTHS[CHOOSE i \in 1..Len(_MONTHS) : _MONTHS[i].name = mon_txt].num]
    ELSE None

\* no match of a regular expression
NoMatch == [matched |-> FALSE]

\* the class [./-]
DateSeps == {".", "/", "-"}

\* the class [A-Za-z<Cyrillic A-ya>\.]
MonthChars ==
    Range(UpperLatin) \cup Range(LowerLatin) \cup Range(UpperCyr) \cup Range(LowerCyr) \cup {"."}

\* if year < 100: year += 2000
FullYear(year) == IF year < 100 THEN year + 2000 ELSE year

\* re.match(r"^(\d{1,2})[./-](\d{1,2})[./-](\d{2,4})$", d), a, b, c the ends of the digit runs
NumericDate(d) ==
    LET a == SkipDigits(d, 1)
        b == SkipDigits(d, a + 1)
        c == SkipDigits(d, b + 1)
    IN  IF /\ a - 1 \in 1..2 /\ a <= Len(d) /\ d[a] \in DateSeps
           /\ b - (a + 1) \in 1..2 /\ b <= Len(d) /\ d[b] \in DateSeps
           /\ c - (b + 1) \in 2..4 /\ c = Len(d) + 1
        THEN [matched |-> TRUE,
              day   |-> DigitsToInt(Slice(d, 1, a - 1)),
              month |-> [k |-> "int", v |-> DigitsToInt(Slice(d, a + 1, b - 1))],
              year  |-> FullYear(DigitsToInt(Slice(d, b + 1, c - 1)))]
        ELSE NoMatch

\* re.match(r"^(\d{1,2})\s+([A-Za-z<Cyrillic>\.]{3,})\s+(\d{2,4})$", d)
NamedDate(d) ==
    LET a  == SkipDigits(d, 1)
        s1 == SkipSpace(d, a)
        l  == SkipIn(d, s1, MonthChars)
        s2 == SkipSpace(d, l)
        c  == SkipDigits(d, s2)
    IN  IF /\ a - 1 \in 1..2 /\ s1 > a /\ l - s1 >= 3 /\ s2 > l
           /\ c - s2 \in 2..4 /\ c = Len(d) + 1
        THEN [matched |-> TRUE,
              day   |-> DigitsToInt(Slice(d, 1, a - 1)),
              month |-> MonthsGet(Lower(StripChars(Slice(d, s1, l - 1), {"."}))),
              year  |-> FullYear(DigitsToInt(Slice(d, s2, c - 1)))]
        ELSE NoMatch

\* day, month, year after the two regular expressions: the first that matches;
\* month is an int [k |-> "int", v |-> n] or None
DayMonthYear(d) ==
    IF NumericDate(d).matched THEN NumericDate(d) ELSE NamedDate(d)

\* not (day and month and year)
DateMissing(dmy) ==
    \/ ~dmy.matched
    \/ dmy.day = 0
    \/ dmy.month = None \/ dmy.month.v = 0
    \/ dmy.year = 0

\* t = _clean(time_text)[:5]
TimeCut(time_text) == Slice(_clean(time_text), 1, IF Len(_clean(time_text)) < 5 THEN Len(_clean(time_text)) ELSE 5)

\* hm = re.match(r"^(\d{1,2}):(\d{2})$", t)
TimeMatch(t) ==
    LET a == SkipDigits(t, 1)
        b == SkipDigits(t, a + 1)
    IN  IF /\ a - 1 \in 1..2 /\ a <= Len(t) /\ t[a] = ":"
           /\ b - (a + 1) = 2 /\ b = Len(t) + 1
        THEN [matched |-> TRUE,
              hh |-> DigitsToInt(Slice(t, 1, a - 1)),
              mm |-> DigitsToInt(Slice(t, a + 1, b - 1))]
        ELSE NoMatch

\* hh, mm = (int(hm.group(1)), int(hm.group(2))) if hm else (0, 0)
HourMinute(hm) == IF hm.matched THEN hm ELSE [matched |-> TRUE, hh |-> 0, mm |-> 0]

\* calendar.isleap
IsLeap(year) == (year % 4 = 0 /\ year % 100 # 0) \/ year % 400 = 0

\* the days of a month of the proleptic Gregorian calendar
DaysIn(year, month) ==
    IF month = 2 THEN (IF IsLeap(year) THEN 29 ELSE 28)
    ELSE IF month \in {4, 6, 9, 11} THEN 30 ELSE 31

\* datetime(year, month, day, hh, mm, 0) does not raise ValueError
DateTimeOk(year, month, day, hh, mm) ==
    /\ year \in 1..9999
    /\ month \in 1..12
    /\ day \in 1..DaysIn(year, month)
    /\ hh \in 0..23
    /\ mm \in 0..59

\* _tz.localize(...).isoformat(): the fields of the text YYYY-MM-DDTHH:MM:00+offset
IsoFormat(year, month, day, hh, mm, zone) ==
    [k |-> "iso", year |-> year, month |-> month, day |-> day, hh |-> hh, mm |-> mm, tz |-> zone]

\* the try block of _to_iso and the return None after it
Localized(dmy, hm) ==
    IF ~hm.matched THEN None
    ELSE IF _tz # "None" /\ DateTimeOk(dmy.year, dmy.month.v, dmy.day, hm.hh, hm.mm)
    THEN IsoFormat(dmy.year, dmy.month.v, dmy.day, hm.hh, hm.mm, _tz)
    ELSE None

_to_iso(date_text, time_text) ==
    IF date_text = <<>> \/ time_text = <<>> THEN None
    ELSE IF DateMissing(DayMonthYear(_clean(date_text))) THEN None
    ELSE Localized(DayMonthYear(_clean(date_text)), HourMinute(TimeMatch(TimeCut(time_text))))

\* the English three-letter abbreviations of the months, as a page prints them
EnglishAbbr ==
    << <<"J", "a", "n">>,
       <<"F", "e", "b">>,
       <<"M", "a", "r">>,
       <<"A", "p", "r">>,
       <<"M", "a", "y">>,
       <<"J", "u", "n">>,
       <<"J", "u", "l">>,
       <<"A", "u", "g">>,
       <<"S", "e", "p">>,
       <<"O", "c", "t">>,
       <<"N", "o", "v">>,
       <<"D", "e", "c">> >>

\* the Russian three-letter abbreviations of the months
RussianAbbr ==
    << <<"cy_ya", "cy_n", "cy_v">>,
       <<"cy_f", "cy_e", "cy_v">>,
       <<"cy_m", "cy_a", "cy_r">>,
       <<"cy_a", "cy_p", "cy_r">>,
       <<"cy_m", "cy_a", "cy_j">>,
       <<"cy_i", "cy_yu", "cy_n">>,
       <<"cy_i", "cy_yu", "cy_l">>,
       <<"cy_a", "cy_v", "cy_g">>,
       <<"cy_s", "cy_e", "cy_n">>,
       <<"cy_o", "cy_k", "cy_t">>,
       <<"cy_n", "cy_o", "cy_ya">>,
       <<"cy_d", "cy_e", "cy_k">> >>

\* "15 <month> 2026"
DayOf(name) == <<"1", "5", " ">> \o name \o <<" ", "2", "0", "2", "6">>

\* date cells written with digits, valid and not
NumericDates ==
    { <<"1", ".", "1", "1", ".", "2", "6">>,
      <<"1", "5", "/", "1", "0", "/", "2", "0", "2", "6">>,
      <<"2", "9", "-", "2", "-", "2", "4">>,
      <<"2", "9", ".", "2", ".", "2", "6">>,
      <<"1", "5", ".", "1", "3", ".", "2", "6">>,
      <<"0", ".", "5", ".", "2", "6">>,
      <<"1", ".", "1", "1", ".", "0", "2", "6">> }

\* date cells written with a month name
NamedDates ==
    {DayOf(EnglishAbbr[m]) : m \in 1..12} \cup {DayOf(RussianAbbr[m]) : m \in 1..12}
        \cup { <<"1", "5", " ", "O", "c", "t", ".", " ", "2", "0", "2", "6">>,
               <<"1", "5", " ", "S", "E", "P", " ", "2", "6">>,
               <<"1", "5", " ", "S", "e", "p", "t", " ", "2", "0", "2", "6">>,
               <<"3", "1", " ", "J", "u", "n", " ", "2", "0", "2", "6">> }

\* date cells neither regular expression matches, and the empty cell
OtherDates ==
    { <<"t", "b", "d">>,
      <<"N", "o", "v", " ", "1", "5", ",", " ", "2", "0", "2", "6">>,
      <<"2", "0", "2", "6", "-", "1", "1", "-", "1", "5">>,
      <<>> }

DateCells == NumericDates \cup NamedDates \cup OtherDates

\* time cells: HH:MM, H:MM, texts, a time with seconds, a time with a zone, 24:00, empty
TimeCells ==
    { <<"1", "5", ":", "3", "0">>,
      <<"9", ":", "0", "5">>,
      <<"s", "o", "o", "n">>,
      <<"T", "e", "n", "t", "a", "t", "i", "v", "e">>,
      <<"1", "5", ":", "3", "0", ":", "4", "5">>,
      <<"9", ":", "0", "5", " ", "G", "M", "T">>,
      <<"2", "4", ":", "0", "0">>,
      <<"1", "5", ":", "3">>,
      <<>> }

\* the zones _tz can hold: none, or the zone named by TZ
Zones == {"None", "Europe/Moscow"}

\* a row has its date and time keys; the module was imported with or without pytz's zone
InitIso ==
    /\ iso_pc = "row"
    /\ _tz \in Zones
    /\ iso_row \in {[date |-> _clean(dc), time |-> _clean(tc)] : dc \in DateCells, tc \in TimeCells}
    /\ IdleScalar
    /\ IdleFetch
    /\ IdleSignal
    /\ IdleAlt
    /\ IdleRender
    /\ IdleBot

\* iso = _to_iso(row["date"], row["time"]); if iso: row["release_dt_iso"] = iso
StampRow ==
    /\ iso_pc = "row"
    /\ iso_row' = IF _to_iso(iso_row.date, iso_row.time) # None
                  THEN [date |-> iso_row.date, time |-> iso_row.time,
                        release_dt_iso |-> _to_iso(iso_row.date, iso_row.time)]
                  ELSE iso_row
    /\ iso_pc' = "stamped"
    /\ UNCHANGED _tz
    /\ UNCHANGED rest_i

NextIso == StampRow

\* lines 388-390 of fetch_table_rows on every date and time cell
SpecIso == InitIso /\ [][NextIso]_vars

-----------------------------------------------------------------------------
(* The renderers format_table_for_tg and render_table_png (SpecRender) *)

\* a rows argument that is a list
RowList(rs) == [k |-> "list", v |-> rs]

\* (rows or [])[:max_rows] for max_rows >= 0
Shown(rows_arg, n) == IF rows_arg = None THEN <<>> ELSE FirstN(rows_arg.v, n)

Dash == <<"EMDASH">>

\* ["-", "-", "-", "-", "-"] with em dashes
DashRow == <<Dash, Dash, Dash, Dash, Dash>>

\* a slip: an empty table stays empty
KeepEmpty(data) == data

\* if not data: data = [[five dashes]]; the same for tbl in render_table_png
OrDashRow(data) == IF data = <<>> THEN <<DashRow>> ELSE data

\* s[:n]
Cut(s, n) == Slice(s, 1, IF n < Len(s) THEN n ELSE Len(s))

\* [date, tm, actual, forecast, previous] of format_table_for_tg
TgCells(r) ==
    << Cut(r.date, 12), Cut(r.time, 5),
       _fmt_val(r.actual_val, r.actual_unit),
       _fmt_val(r.forecast_val, r.forecast_unit),
       _fmt_val(r.previous_val, r.previous_unit) >>

\* W_DATE, W_TIME, W_ACT, W_FC, W_PR
TgWidths == <<12, 5, 12, 9, 9>>

\* c * n
Repeat(c, n) == [i \in 1..n |-> c]

\* cut_pad(s, w)
cut_pad(s, w) ==
    IF Len(Strip(s)) > w
    THEN Cut(Strip(s), w - 1) \o <<"ELLIPSIS">>
    ELSE Strip(s) \o Repeat(" ", w - Len(Strip(s)))

\* line(left, mid, right)
RuleLine(left, mid, right) ==
    <<left>> \o Repeat("BOX_H", TgWidths[1]) \o <<mid>> \o Repeat("BOX_H", TgWidths[2])
        \o <<mid>> \o Repeat("BOX_H", TgWidths[3]) \o <<mid>> \o Repeat("BOX_H", TgWidths[4])
        \o <<mid>> \o Repeat("BOX_H", TgWidths[5]) \o <<right>>

\* V + cut_pad(row[0], W_DATE) + ... + V
CellLine(cells) ==
    <<"BOX_V">> \o cut_pad(cells[1], TgWidths[1]) \o <<"BOX_V">> \o cut_pad(cells[2], TgWidths[2])
        \o <<"BOX_V">> \o cut_pad(cells[3], TgWidths[3]) \o <<"BOX_V">> \o cut_pad(cells[4], TgWidths[4])
        \o <<"BOX_V">> \o cut_pad(cells[5], TgWidths[5]) \o <<"BOX_V">>

TgHeaders ==
    << <<"R", "e", "l", "e", "a", "s", "e", " ", "D", "a", "t", "e">>,
       <<"T", "i", "m", "e">>,
       <<"A", "c", "t", "u", "a", "l">>,
       <<"F", "o", "r", "e", "c", "a", "s", "t">>,
       <<"P", "r", "e", "v", "i", "o", "u", "s">> >>

\* the lines of the table format_table_for_tg puts between <pre> and </pre>
format_table_for_tg(rows_arg, n) ==
    LET data == OrDashRow([i \in 1..Len(Shown(rows_arg, n)) |-> TgCells(Shown(rows_arg, n)[i])])
    IN  [top |-> RuleLine("BOX_TL", "BOX_T", "BOX_TR"),
         head |-> CellLine(TgHeaders),
         mid |-> RuleLine("BOX_LJ", "BOX_X", "BOX_RJ"),
         body_lines |-> [i \in 1..Len(data) |-> CellLine(data[i])],
         bot |-> RuleLine("BOX_BL", "BOX_B", "BOX_BR")]

RECURSIVE CommaBlank(_)
\* str.replace(", ", " ")
CommaBlank(s) ==
    IF s = <<>> THEN <<>>
    ELSE IF Len(s) >= 2 /\ s[1] = "," /\ s[2] = " " THEN <<" ">> \o CommaBlank(Slice(s, 3, Len(s)))
    ELSE <<s[1]>> \o CommaBlank(Tail(s))

\* x or dash
OrDash(x) == IF x = <<>> THEN Dash ELSE x

\* [date, tm, actual, forecast, previous] of render_table_png
PngCells(r) ==
    << Cut(CommaBlank(OrDash(r.date)), 18), Cut(OrDash(r.time), 5),
       _fmt_val(r.actual_val, r.actual_unit),
       _fmt_val(r.forecast_val, r.forecast_unit),
       _fmt_val(r.previous_val, r.previous_unit) >>

PAD == 28
GAP == 12
TITLE_H == 58
SUB_H == 22
HEAD_H == 52
ROW_H == 48
FOOT_H == 24

\* height = PAD*2 + TITLE_H + SUB_H + GAP + HEAD_H + len(tbl)*ROW_H + GAP + FOOT_H
ImageHeight(tbl) == PAD * 2 + TITLE_H + SUB_H + GAP + HEAD_H + Len(tbl) * ROW_H + GAP + FOOT_H

\* the image render_table_png draws: one band of ROW_H pixels for each row of tbl, in an
\* image of the height computed; the width, which comes from the font metrics, is left out
render_table_png(rows_arg, n) ==
    LET tbl == OrDashRow([i \in 1..Len(Shown(rows_arg, n)) |-> PngCells(Shown(rows_arg, n)[i])])
    IN  [tbl |-> tbl, height |-> ImageHeight(tbl), fname |-> "indicator_table.png"]

\* rows as fetch_table_rows builds them
RenderRowKinds == {MakeRow(rGood, -3, -2, -1), MakeRow(rText, -3, -2, -1), MakeRow(rUnit, -3, -2, -1)}

\* the rows arguments: None, the empty list and every list of up to MaxRows rows
RenderArgs == {None} \cup {RowList(rs) : rs \in UNION {[1..n -> RenderRowKinds] : n \in 0..MaxRows}}

\* the max_rows arguments: none, one, and the defaults 6 and 8 (8 is what bot.py passes)
RenderMax == {0, 1, 6, 8}

InitRender ==
    /\ ren_pc = "call"
    /\ ren_rows \in RenderArgs
    /\ ren_max \in RenderMax
    /\ tg_text = <<>>
    /\ png_image = <<>>
    /\ IdleScalar
    /\ IdleFetch
    /\ IdleSignal
    /\ IdleAlt
    /\ IdleIso
    /\ IdleBot

\* msg = format_table_for_tg(rows, src_url, max_rows)
FormatTableForTg ==
    /\ ren_pc = "call"
    /\ tg_text' = format_table_for_tg(ren_rows, ren_max)
    /\ ren_pc' = "text"
    /\ UNCHANGED <<ren_rows, ren_max, png_image>>
    /\ UNCHANGED rest_r

\* png_bytes, fname = render_table_png(rows, title, max_rows)
RenderTablePng ==
    /\ ren_pc = "call"
    /\ png_image' = render_table_png(ren_rows, ren_max)
    /\ ren_pc' = "image"
    /\ UNCHANGED <<ren_rows, ren_max, tg_text>>
    /\ UNCHANGED rest_r

NextRender == FormatTableForTg \/ RenderTablePng

\* either renderer on every rows argument
SpecRender == InitRender /\ [][NextRender]_vars

-----------------------------------------------------------------------------
(* bot.py: _parse_hhmm, _normalize_days and reschedule_user_job (SpecResched) *)

\* None where the code holds a str or None: get_state without a row, _normalize_days
NoneText == <<"NONE">>

\* x or ""
OrEmpty(x) == IF x = NoneText THEN <<>> ELSE x

\* _parse_hhmm: _TIME_RE = ^([01]?\d|2[0-3]):([0-5]\d)$ on the stripped text
_parse_hhmm(s) ==
    LET t == Strip(OrEmpty(s))
    IN  IF /\ Len(t) = 4 /\ t[1] \in Digits /\ t[2] = ":"
           /\ t[3] \in {"0", "1", "2", "3", "4", "5"} /\ t[4] \in Digits
        THEN [k |-> "hhmm", hh |-> DigitsToInt(Slice(t, 1, 1)), mm |-> DigitsToInt(Slice(t, 3, 4))]
        ELSE IF /\ Len(t) = 5 /\ t[3] = ":"
                /\ \/ (t[1] \in {"0", "1"} /\ t[2] \in Digits)
                   \/ (t[1] = "2" /\ t[2] \in {"0", "1", "2", "3"})
                /\ t[4] \in {"0", "1", "2", "3", "4", "5"} /\ t[5] \in Digits
        THEN [k |-> "hhmm", hh |-> DigitsToInt(Slice(t, 1, 2)), mm |-> DigitsToInt(Slice(t, 4, 5))]
        ELSE None

\* f"{n:02d}" for 0 <= n <= 99
TwoDigits(n) == <<DigitChar(n \div 10), DigitChar(n % 10)>>

\* f"{hh:02d}:{mm:02d}"
FormatHHMM(p) == TwoDigits(p.hh) \o <<":">> \o TwoDigits(p.mm)

_RU2EN ==
    << [ru |-> <<"cy_p", "cy_n">>, en |-> <<"m", "o", "n">>],
       [ru |-> <<"cy_v", "cy_t">>, en |-> <<"t", "u", "e">>],
       [ru |-> <<"cy_s", "cy_r">>, en |-> <<"w", "e", "d">>],
       [ru |-> <<"cy_ch", "cy_t">>, en |-> <<"t", "h", "u">>],
       [ru |-> <<"cy_p", "cy_t">>, en |-> <<"f", "r", "i">>],
       [ru |-> <<"cy_s", "cy_b">>, en |-> <<"s", "a", "t">>],
       [ru |-> <<"cy_v", "cy_s">>, en |-> <<"s", "u", "n">>],
       [ru |-> <<"cy_p", "cy_o", "cy_n">>, en |-> <<"m", "o", "n">>],
       [ru |-> <<"cy_s", "cy_r", "cy_e", "cy_d">>, en |-> <<"w", "e", "d">>],
       [ru |-> <<"cy_ch", "cy_e", "cy_t">>, en |-> <<"t", "h", "u">>],
       [ru |-> <<"cy_p", "cy_ya", "cy_t">>, en |-> <<"f", "r", "i">>],
       [ru |-> <<"cy_s", "cy_u", "cy_b">>, en |-> <<"s", "a", "t">>],
       [ru |-> <<"cy_v", "cy_o", "cy_s", "cy_k">>, en |-> <<"s", "u", "n">>] >>

_VALID_DAYS == <<<<"m", "o", "n">>, <<"t", "u", "e">>, <<"w", "e", "d">>, <<"t", "h", "u">>, <<"f", "r", "i">>, <<"s", "a", "t">>, <<"s", "u", "n">>>>

\* ("ezhednevno", "kazhdyj den'", "daily", "every day")
DailyWords ==
    { <<"cy_e", "cy_zh", "cy_e", "cy_d", "cy_n", "cy_e", "cy_v", "cy_n", "cy_o">>,
      <<"cy_k", "cy_a", "cy_zh", "cy_d", "cy_y", "cy_j", " ", "cy_d", "cy_e", "cy_n", "cy_soft">>,
      <<"d", "a", "i", "l", "y">>,
      <<"e", "v", "e", "r", "y", " ", "d", "a", "y">> }

\* what \w matches: letters, digits, underscore
WordChars ==
    Range(UpperLatin) \cup Range(LowerLatin) \cup Range(UpperCyr) \cup Range(LowerCyr) \cup Digits \cup {"_"}

\* one word through _RU2EN
Ru2En(w) ==
    IF \E i \in 1..Len(_RU2EN) : _RU2EN[i].ru = w
    THEN _RU2EN[CHOOSE i \in 1..Len(_RU2EN) : _RU2EN[i].ru = w].en
    ELSE w

RECURSIVE SubWords(_)
\* for ru, en in _RU2EN.items(): s = re.sub(rf"\b{ru}\b", en, s): every whole word that
\* is a key is replaced
SubWords(s) ==
    IF s = <<>> THEN <<>>
    ELSE IF s[1] \in WordChars
    THEN Ru2En(Slice(s, 1, SkipIn(s, 1, WordChars) - 1))
            \o SubWords(Slice(s, SkipIn(s, 1, WordChars), Len(s)))
    ELSE <<s[1]>> \o SubWords(Tail(s))

RECURSIVE ReplacePon(_)
\* str.replace("pon" in Cyrillic, "mon")
ReplacePon(s) ==
    IF Len(s) < 3 THEN s
    ELSE IF Slice(s, 1, 3) = <<"cy_p", "cy_o", "cy_n">> THEN <<"m", "o", "n">> \o ReplacePon(Slice(s, 4, Len(s)))
    ELSE <<s[1]>> \o ReplacePon(Tail(s))

IsDay(p) == \E i \in 1..Len(_VALID_DAYS) : _VALID_DAYS[i] = p

\* re.fullmatch(r"(mon|...|sun)-(mon|...|sun)", s)
IsDayRange(s) == Len(s) = 7 /\ s[4] = "-" /\ IsDay(Slice(s, 1, 3)) /\ IsDay(Slice(s, 5, 7))

RECURSIVE FindChar(_, _, _)
\* the first position >= i of s that holds c (Len(s) + 1 when there is none)
FindChar(s, c, i) == IF i > Len(s) \/ s[i] = c THEN i ELSE FindChar(s, c, i + 1)

RECURSIVE SplitComma(_)
\* s.split(",")
SplitComma(s) ==
    IF ~Contains(s, ",") THEN <<s>>
    ELSE <<Slice(s, 1, FindChar(s, ",", 1) - 1)>> \o SplitComma(Slice(s, FindChar(s, ",", 1) + 1, Len(s)))

RECURSIVE JoinComma(_)
\* ",".join(parts)
JoinComma(parts) ==
    IF Len(parts) = 1 THEN parts[1] ELSE parts[1] \o <<",">> \o JoinComma(Tail(parts))

\* the tail of _normalize_days, on s after the substitutions
DaysOf(s) ==
    IF IsDayRange(s) THEN s
    ELSE IF SelectSeq(SplitComma(s), LAMBDA p : p # <<>>) # <<>>
            /\ \A i \in 1..Len(SplitComma(s)) : SplitComma(s)[i] = <<>> \/ IsDay(SplitComma(s)[i])
    THEN JoinComma(SelectSeq(SplitComma(s), LAMBDA p : p # <<>>))
    ELSE IF IsDay(s) THEN s
    ELSE NoneText

_normalize_days(s) ==
    IF Lower(Strip(OrEmpty(s))) = <<>> THEN NoneText
    ELSE IF Lower(Strip(OrEmpty(s))) \in DailyWords THEN <<"m", "o", "n", "-", "s", "u", "n">>
    ELSE DaysOf(ReplacePon(RemoveChar(SubWords(Lower(Strip(OrEmpty(s)))), " ")))

\* the position of a day in the week, 1 for mon
DayIndex(d) == CHOOSE i \in 1..Len(_VALID_DAYS) : _VALID_DAYS[i] = d

\* CronTrigger(**trig_kwargs) does not raise: apscheduler rejects a range of days whose
\* first day comes after its last
CronTriggerOk(dow) ==
    IsDayRange(dow) => DayIndex(Slice(dow, 1, 3)) <= DayIndex(Slice(dow, 5, 7))

EveryDay == <<"m", "o", "n", "-", "s", "u", "n">>

\* trig_kwargs, without the constant timezone
TrigKwargs(hhmm, dow) ==
    IF dow # EveryDay
    THEN [hour |-> hhmm.hh, minute |-> hhmm.mm, day_of_week |-> dow]
    ELSE [hour |-> hhmm.hh, minute |-> hhmm.mm]

\* a slip: the job of the pair is left in the scheduler
KeepJob(js, id) == js

\* scheduler.remove_job(job_id), JobLookupError swallowed
RemoveJob(js, id) == {j \in js : j.id # id}

\* scheduler.add_job(_job, trig, id=job_id, replace_existing=True, ...)
AddJob(js, id, trig) == {j \in js : j.id # id} \cup {[id |-> id, trig |-> trig]}

\* the jobs of the scheduler after reschedule_user_job has read enabled, time_str and days_str,
\* js being the jobs after remove_job
Scheduled(js, id, enabled, time_str, days_str) ==
    IF enabled # <<"1">> THEN js
    ELSE IF OrEmpty(time_str) = <<>> \/ OrEmpty(days_str) = <<>> THEN js
    ELSE IF _parse_hhmm(OrEmpty(time_str)) = None THEN js
    ELSE IF _normalize_days(OrEmpty(days_str)) = NoneText THEN js
    ELSE IF ~CronTriggerOk(_normalize_days(OrEmpty(days_str))) THEN js
    ELSE AddJob(js, id, TrigKwargs(_parse_hhmm(OrEmpty(time_str)), _normalize_days(OrEmpty(days_str))))

\* reschedule_user_job(chat_id, ind_key) run without another task in between
reschedule_user_job(js, ind) ==
    IF scheduler = "None" THEN js
    ELSE Scheduled(RemoveJob(js, ind), ind, kv_enabled[ind], kv_time[ind], kv_days[ind])

\* reschedule_user_job reaches scheduler.add_job and the call succeeds
Added(js, ind) ==
    scheduler # "None" /\ reschedule_user_job(js, ind) # RemoveJob(js, ind)

\* the messages reschedule_user_job sends once a job is added: the next run, and, when the
\* next run is less than 30 seconds away, the update itself
AfterAdd(near) == IF near THEN <<"next_run", "slot_now", "update">> ELSE <<"next_run">>

\* the indicator keys of the chat: two presets and the key of one custom indicator
Inds == {"JOBLESS_CLAIMS", "CPI", CustomKey}

\* a row of kv for every key of Inds, all with the same value
AllRows(val) == [i \in Inds |-> val]

\* one row of kv replaced
SetRow(rows_kv, ind, val) == [rows_kv EXCEPT ![ind] = val]

\* values of sched2:enabled rows
EnabledVals == {NoneText, <<"1">>, <<"0">>, <<>>}

\* values of sched2:time rows: none, empty, times that parse and times that do not
TimeVals ==
    { NoneText, <<>>,
      <<"1", "5", ":", "3", "0">>,
      <<"9", ":", "0", "5">>,
      <<"2", "4", ":", "0", "0">>,
      <<"1", "5", "3", "0">> }

\* values of sched2:days rows: none, empty, day texts that normalize and day texts that do not
DayVals ==
    { NoneText, <<>>,
      <<"m", "o", "n", "-", "s", "u", "n">>,
      <<"m", "o", "n", "-", "f", "r", "i">>,
      <<"s", "a", "t", ",", "s", "u", "n">>,
      <<"f", "r", "i", "-", "m", "o", "n">>,
      <<"x", "y", "z">>,
      <<"cy_p", "cy_n", "-", "cy_ch", "cy_t">> }

\* a trigger set by an earlier call
OldTrig == [hour |-> 7, minute |-> 0]

\* reschedule_user_job is about to run for the pair (chat, kv_curr); the rows of the pair
\* hold any value, the scheduler may be missing, a job of the pair may exist
InitResched ==
    /\ bot_pc = "call"
    /\ kv_curr \in {"JOBLESS_CLAIMS", CustomKey}
    /\ scheduler \in {"None", "running"}
    /\ jobs \in {{}, {[id |-> kv_curr, trig |-> OldTrig]},
                 {[id |-> kv_curr, trig |-> OldTrig], [id |-> "CPI", trig |-> OldTrig]}}
    /\ scheduler = "None" => jobs = {}
    /\ \E e \in EnabledVals : kv_enabled = SetRow(AllRows(NoneText), kv_curr, e)
    /\ \E t \in TimeVals : kv_time = SetRow(AllRows(NoneText), kv_curr, t)
    /\ \E d \in DayVals : kv_days = SetRow(AllRows(NoneText), kv_curr, d)
    /\ kv_ui = "" /\ kv_last = "" /\ kv_tmp = <<>> /\ custom_rows = <<>>
    /\ tasks = <<>> /\ last_state = <<>> /\ observed = <<>> /\ sent = <<>>
    /\ IdleScalar
    /\ IdleFetch
    /\ IdleSignal
    /\ IdleAlt
    /\ IdleIso
    /\ IdleRender

\* await reschedule_user_job(chat_id, kv_curr), no other task running
RescheduleUserJob ==
    /\ bot_pc = "call"
    /\ jobs' = reschedule_user_job(jobs, kv_curr)
    /\ \E near \in BOOLEAN :
          sent' = IF Added(jobs, kv_curr) THEN AfterAdd(near) ELSE <<>>
    /\ bot_pc' = "done"
    /\ UNCHANGED <<scheduler, kv_enabled, kv_time, kv_days, kv_ui, kv_curr, kv_last, kv_tmp,
                   custom_rows, tasks, last_state, observed>>
    /\ UNCHANGED rest_b

NextResched == RescheduleUserJob

\* one sequential run of reschedule_user_job on every stored setting
SpecResched == InitResched /\ [][NextResched]_vars

-----------------------------------------------------------------------------
(* Handlers of one chat running as concurrent tasks (SpecRace) *)
(* aiogram runs every update in a task of its own; a task gives way to the   *)
(* others at each await. A handler is cut at the awaits that matter for the  *)
(* schedule: the write of its setting, then, inside reschedule_user_job,     *)
(* remove_job, the three reads of the store, and add_job.                    *)

\* most handler tasks in flight at once
MaxTasks == 2

\* the handlers: settings_enable, settings_disable, and handle_text with ui state
\* await_time and await_days; arg is the text of the message
RaceOps ==
    { [op |-> "enable",   arg |-> <<>>],
      [op |-> "disable",  arg |-> <<>>],
      [op |-> "set_time", arg |-> <<"9", ":", "0", "5">>],
      [op |-> "set_days", arg |-> <<"m", "o", "n", "-", "f", "r", "i">>] }

\* a task before its first step
NewTask(o) ==
    [pc |-> "write", op |-> o.op, arg |-> o.arg,
     enabled |-> NoneText, time_str |-> NoneText, days_str |-> NoneText]

\* every task has returned
AllDone == \A i \in DOMAIN tasks : tasks[i].pc = "done"

\* the answer a handler sends after its write
Answer(op) ==
    CASE op = "enable" -> <<"enabled">>
      [] op = "disable" -> <<"disabled">>
      [] op = "set_time" -> <<"time_set">>
      [] op = "set_days" -> <<"days_set">>

\* the stored settings are 15:30 every day, enabled or not, and the scheduler holds the
\* job that goes with them
InitRace ==
    /\ bot_pc = "race"
    /\ scheduler = "running"
    /\ kv_curr = "JOBLESS_CLAIMS"
    /\ \E e \in {<<"0">>, <<"1">>} : kv_enabled = SetRow(AllRows(NoneText), kv_curr, e)
    /\ kv_time = SetRow(AllRows(NoneText), kv_curr, <<"1", "5", ":", "3", "0">>)
    /\ kv_days = SetRow(AllRows(NoneText), kv_curr, EveryDay)
    /\ jobs = reschedule_user_job({}, kv_curr)
    /\ tasks \in [1..MaxTasks -> {NewTask(o) : o \in RaceOps}]
    /\ kv_ui = "" /\ kv_last = "" /\ kv_tmp = <<>> /\ custom_rows = <<>>
    /\ last_state = <<>> /\ observed = <<>> /\ sent = <<>>
    /\ IdleScalar
    /\ IdleFetch
    /\ IdleSignal
    /\ IdleAlt
    /\ IdleIso
    /\ IdleRender

\* await set_state(_k_enabled | _k_time | _k_days, ...)
WriteSetting ==
    \E i \in DOMAIN tasks :
        /\ tasks[i].pc = "write"
        /\ kv_enabled' = IF tasks[i].op = "enable" THEN SetRow(kv_enabled, kv_curr, <<"1">>)
                         ELSE IF tasks[i].op = "disable" THEN SetRow(kv_enabled, kv_curr, <<"0">>)
                         ELSE kv_enabled
        /\ kv_time' = IF tasks[i].op = "set_time"
                      THEN SetRow(kv_time, kv_curr, FormatHHMM(_parse_hhmm(tasks[i].arg)))
                      ELSE kv_time
        /\ kv_days' = IF tasks[i].op = "set_days"
                      THEN SetRow(kv_days, kv_curr, _normalize_days(tasks[i].arg))
                      ELSE kv_days
        /\ tasks' = [tasks EXCEPT ![i].pc = "remove"]
        /\ UNCHANGED <<bot_pc, scheduler, jobs, kv_ui, kv_curr, kv_last, kv_tmp, custom_rows,
                       last_state, observed, sent>>
        /\ UNCHANGED rest_b

\* await m.answer(...) returns; reschedule_user_job starts: scheduler.remove_job(job_id)
RemoveStep ==
    \E i \in DOMAIN tasks :
        /\ tasks[i].pc = "remove"
        /\ sent' = Answer(tasks[i].op)
        /\ jobs' = RemoveJob(jobs, kv_curr)
        /\ tasks' = [tasks EXCEPT ![i].pc = "read_enabled"]
        /\ UNCHANGED <<bot_pc, scheduler, kv_enabled, kv_time, kv_days, kv_ui, kv_curr, kv_last,
                       kv_tmp, custom_rows, last_state, observed>>
        /\ UNCHANGED rest_b

\* enabled = await get_state(_k_enabled(chat_id, ind_key)); if enabled != "1": return
ReadEnabled ==
    \E i \in DOMAIN tasks :
        /\ tasks[i].pc = "read_enabled"
        /\ tasks' = [tasks EXCEPT ![i].enabled = kv_enabled[kv_curr],
                                  ![i].pc = IF kv_enabled[kv_curr] # <<"1">> THEN "done" ELSE "read_time"]
        /\ UNCHANGED <<bot_pc, scheduler, jobs, kv_enabled, kv_time, kv_days, kv_ui, kv_curr, kv_last,
                       kv_tmp, custom_rows, last_state, observed, sent>>
        /\ UNCHANGED rest_b

\* time_str = (await get_state(_k_time(chat_id, ind_key))) or ""
ReadTime ==
    \E i \in DOMAIN tasks :
        /\ tasks[i].pc = "read_time"
        /\ tasks' = [tasks EXCEPT ![i].time_str = kv_time[kv_curr], ![i].pc = "read_days"]
        /\ UNCHANGED <<bot_pc, scheduler, jobs, kv_enabled, kv_time, kv_days, kv_ui, kv_curr, kv_last,
                       kv_tmp, custom_rows, last_state, observed, sent>>
        /\ UNCHANGED rest_b

\* days_str = (await get_state(_k_days(chat_id, ind_key))) or ""
ReadDays ==
    \E i \in DOMAIN tasks :
        /\ tasks[i].pc = "read_days"
        /\ tasks' = [tasks EXCEPT ![i].days_str = kv_days[kv_curr], ![i].pc = "add"]
        /\ UNCHANGED <<bot_pc, scheduler, jobs, kv_enabled, kv_time, kv_days, kv_ui, kv_curr, kv_last,
                       kv_tmp, custom_rows, last_state, observed, sent>>
        /\ UNCHANGED rest_b

\* the checks of the values read, CronTrigger, scheduler.add_job and the messages after it
AddStep ==
    \E i \in DOMAIN tasks :
        /\ tasks[i].pc = "add"
        /\ jobs' = Scheduled(jobs, kv_curr, tasks[i].enabled, tasks[i].time_str, tasks[i].days_str)
        /\ \E near \in BOOLEAN :
              sent' = IF Scheduled({}, kv_curr, tasks[i].enabled, tasks[i].time_str, tasks[i].days_str) # {}
                      THEN AfterAdd(near) ELSE sent
        /\ tasks' = [tasks EXCEPT ![i].pc = "done"]
        /\ UNCHANGED <<bot_pc, scheduler, kv_enabled, kv_time, kv_days, kv_ui, kv_curr, kv_last,
                       kv_tmp, custom_rows, last_state, observed>>
        /\ UNCHANGED rest_b

NextRace == WriteSetting \/ RemoveStep \/ ReadEnabled \/ ReadTime \/ ReadDays \/ AddStep

\* every interleaving of MaxTasks handlers of one chat and indicator
SpecRace == InitRace /\ [][NextRace]_vars

-----------------------------------------------------------------------------
(* The handlers of one chat, one message after the other (SpecBot) *)

\* DEFAULT_IND
DEFAULT_IND == "JOBLESS_CLAIMS"

\* the titles of the two presets of Inds, written short
PresetTitle == [k \in {"JOBLESS_CLAIMS", "CPI"} |-> IF k = "CPI" THEN <<"C", "P", "I">> ELSE <<"J", "C">>]

\* the title of the custom indicator the chat adds
CustomTitle == <<"m", "y">>

\* storage._make_key(chat_id, title): the key of the one title of the model
_make_key(title) == CustomKey

\* storage.add_custom_indicator: INSERT OR REPLACE, one row per key and per title
add_custom_indicator(rows_c, title, url, rule) ==
    SelectSeq(rows_c, LAMBDA r : r.key # _make_key(Strip(title)) /\ r.title # Strip(title))
        \o << [key |-> _make_key(Strip(title)), title |-> Strip(title),
               url |-> Strip(url), rule |-> Upper(Strip(rule))] >>

\* storage.delete_custom_indicator_by_title: the rows left
delete_custom_indicator_by_title(rows_c, title) ==
    SelectSeq(rows_c, LAMBDA r : r.title # Strip(title))

\* the keys of get_indicators(chat_id) among Inds: the presets and the custom rows
IndKeys(rows_c) == DOMAIN PresetTitle \cup {rows_c[i].key : i \in 1..Len(rows_c)}

\* IND[key]["title"]
TitleOf(rows_c, key) ==
    IF key \in DOMAIN PresetTitle THEN PresetTitle[key]
    ELSE rows_c[CHOOSE i \in 1..Len(rows_c) : rows_c[i].key = key].title

\* key_by_title_sync(IND, title): the first key with that title, presets first; "" for None
key_by_title_sync(rows_c, title) ==
    IF \E k \in DOMAIN PresetTitle : PresetTitle[k] = title
    THEN CHOOSE k \in DOMAIN PresetTitle : PresetTitle[k] = title
    ELSE IF \E i \in 1..Len(rows_c) : rows_c[i].title = title
    THEN rows_c[CHOOSE i \in 1..Len(rows_c) : rows_c[i].title = title].key
    ELSE ""

RECURSIVE LStrip(_, _)
\* str.lstrip(chars)
LStrip(s, chars) ==
    IF s # <<>> /\ Head(s) \in chars THEN LStrip(Tail(s), chars) ELSE s

\* txt.lstrip(check mark, blank).lstrip(puzzle piece, blank).strip()
ButtonTitle(txt) == Strip(LStrip(LStrip(txt, {"CHECK", " "}), {"PUZZLE", " "}))

\* str.startswith
StartsWith(s, p) == Len(s) >= Len(p) /\ SubSeq(s, 1, Len(p)) = p

\* txt.startswith("http://") or txt.startswith("https://")
IsUrl(txt) ==
    \/ StartsWith(txt, <<"h", "t", "t", "p", ":", "/", "/">>)
    \/ StartsWith(txt, <<"h", "t", "t", "p", "s", ":", "/", "/">>)

\* curr or DEFAULT_IND
CurrOrDefault == IF kv_curr = "" THEN DEFAULT_IND ELSE kv_curr

\* reschedule_user_job with the rows of the store given
Resched(js, ind, enabled, time_str, days_str) ==
    IF scheduler = "None" THEN js
    ELSE Scheduled(RemoveJob(js, ind), ind, enabled, time_str, days_str)

\* the messages a chat sends that reach handle_text: a time, a day range, the title of a
\* preset, the title of the custom indicator with and without the sticker of its button,
\* a URL, a rule code and a single character
BotTexts ==
    { <<"9", ":", "0", "5">>,
      <<"m", "o", "n", "-", "f", "r", "i">>,
      <<"J", "C">>,
      CustomTitle,
      <<"PUZZLE", " ">> \o CustomTitle,
      <<"h", "t", "t", "p", ":", "/", "/", "x">>,
      <<"l", "t">>,
      <<"x">> }

\* while a title is awaited the chat sends the custom title or the single character
TextsFor(ui) == IF ui = "await_add_title" THEN {CustomTitle, <<"x">>} ELSE BotTexts

\* the variables no handler of the chat changes
botfix == <<bot_pc, scheduler, tasks, last_state, observed>>

\* a chat after on_start and before its first message: an empty store, no jobs
InitBot ==
    /\ bot_pc = "chat"
    /\ scheduler = "running"
    /\ jobs = {}
    /\ kv_enabled = AllRows(NoneText)
    /\ kv_time = AllRows(NoneText)
    /\ kv_days = AllRows(NoneText)
    /\ kv_ui = "" /\ kv_curr = "" /\ kv_last = ""
    /\ kv_tmp = [add_title |-> NoneText, add_url |-> NoneText]
    /\ custom_rows = <<>>
    /\ tasks = <<>> /\ last_state = <<>> /\ observed = <<>> /\ sent = <<>>
    /\ IdleScalar
    /\ IdleFetch
    /\ IdleSignal
    /\ IdleAlt
    /\ IdleIso
    /\ IdleRender

\* open_investing_menu
OpenInvestingMenu ==
    /\ bot_pc = "chat"
    /\ sent' = <<"investing_menu">>
    /\ UNCHANGED <<jobs, kv_enabled, kv_time, kv_days, kv_ui, kv_curr, kv_last, kv_tmp, custom_rows>>
    /\ UNCHANGED botfix
    /\ UNCHANGED rest_b

\* go_back
GoBack ==
    /\ bot_pc = "chat"
    /\ sent' = <<"main_menu">>
    /\ UNCHANGED <<jobs, kv_enabled, kv_time, kv_days, kv_ui, kv_curr, kv_last, kv_tmp, custom_rows>>
    /\ UNCHANGED botfix
    /\ UNCHANGED rest_b

\* open_settings
OpenSettings ==
    /\ bot_pc = "chat"
    /\ kv_curr' = IF kv_curr = "" \/ kv_curr \notin IndKeys(custom_rows)
                  THEN IF kv_last \in IndKeys(custom_rows) THEN kv_last ELSE DEFAULT_IND
                  ELSE kv_curr
    /\ kv_ui' = ""
    /\ sent' = <<"settings">>
    /\ UNCHANGED <<jobs, kv_enabled, kv_time, kv_days, kv_last, kv_tmp, custom_rows>>
    /\ UNCHANGED botfix
    /\ UNCHANGED rest_b

\* back_from_settings
BackFromSettings ==
    /\ bot_pc = "chat"
    /\ kv_ui' = ""
    /\ sent' = <<"settings_done">>
    /\ UNCHANGED <<jobs, kv_enabled, kv_time, kv_days, kv_curr, kv_last, kv_tmp, custom_rows>>
    /\ UNCHANGED botfix
    /\ UNCHANGED rest_b

\* the handlers that only open an input step
Ask(ui, answer) ==
    /\ kv_ui' = ui
    /\ sent' = <<answer>>
    /\ UNCHANGED <<jobs, kv_enabled, kv_time, kv_days, kv_curr, kv_last, kv_tmp, custom_rows>>
    /\ UNCHANGED botfix
    /\ UNCHANGED rest_b

\* settings_pick_indicator
SettingsPickIndicator ==
    /\ bot_pc = "chat"
    /\ Ask("await_pick_ind", "ask_indicator")

\* settings_set_time
SettingsSetTime ==
    /\ bot_pc = "chat"
    /\ Ask("await_time", "ask_time")

\* settings_set_days
SettingsSetDays ==
    /\ bot_pc = "chat"
    /\ Ask("await_days", "ask_days")

\* custom_add_start
CustomAddStart ==
    /\ bot_pc = "chat"
    /\ Ask("await_add_title", "ask_title")

\* custom_del_start
CustomDelStart ==
    /\ bot_pc = "chat"
    /\ Ask("await_del_pick", "ask_delete")

\* settings_enable and settings_disable: the flag is stored, then IND[ind] is looked up for the
\* answer (KeyError for a key that is not in the map), then reschedule_user_job runs
SetEnabled(flag, answer) ==
    /\ kv_enabled' = SetRow(kv_enabled, CurrOrDefault, flag)
    /\ IF CurrOrDefault \notin IndKeys(custom_rows)
       THEN /\ sent' = <<"KeyError">>
            /\ jobs' = jobs
       ELSE /\ jobs' = Resched(jobs, CurrOrDefault, flag, kv_time[CurrOrDefault], kv_days[CurrOrDefault])
            /\ \E near \in BOOLEAN :
                  sent' = <<answer>> \o
                          (IF Resched(jobs, CurrOrDefault, flag, kv_time[CurrOrDefault], kv_days[CurrOrDefault])
                                # RemoveJob(jobs, CurrOrDefault)
                           THEN AfterAdd(near) ELSE <<>>)
    /\ UNCHANGED <<kv_time, kv_days, kv_ui, kv_curr, kv_last, kv_tmp, custom_rows>>
    /\ UNCHANGED botfix
    /\ UNCHANGED rest_b

\* settings_enable
SettingsEnable ==
    /\ bot_pc = "chat"
    /\ SetEnabled(<<"1">>, "enabled")

\* settings_disable
SettingsDisable ==
    /\ bot_pc = "chat"
    /\ SetEnabled(<<"0">>, "disabled")

\* handle_text, ui == "await_time"
TextAwaitTime(txt) ==
    IF _parse_hhmm(txt) = None
    THEN /\ sent' = <<"bad_time">>
         /\ UNCHANGED <<jobs, kv_enabled, kv_time, kv_days, kv_ui, kv_curr, kv_last, kv_tmp, custom_rows>>
    ELSE /\ kv_time' = SetRow(kv_time, CurrOrDefault, FormatHHMM(_parse_hhmm(txt)))
         /\ kv_ui' = ""
         /\ IF CurrOrDefault \notin IndKeys(custom_rows)
            THEN sent' = <<"KeyError">> /\ jobs' = jobs
            ELSE /\ jobs' = Resched(jobs, CurrOrDefault, kv_enabled[CurrOrDefault],
                                    FormatHHMM(_parse_hhmm(txt)), kv_days[CurrOrDefault])
                 /\ sent' = <<"time_set">>
         /\ UNCHANGED <<kv_enabled, kv_days, kv_curr, kv_last, kv_tmp, custom_rows>>

\* handle_text, ui == "": a title of the map selects the indicator, any other text falls
\* through every branch and gets no answer
TextNoState(txt) ==
    IF key_by_title_sync(custom_rows, ButtonTitle(txt)) # ""
    THEN /\ kv_last' = key_by_title_sync(custom_rows, ButtonTitle(txt))
         /\ kv_curr' = key_by_title_sync(custom_rows, ButtonTitle(txt))
         /\ sent' = <<"indicator_selected">>
         /\ UNCHANGED <<jobs, kv_enabled, kv_time, kv_days, kv_ui, kv_tmp, custom_rows>>
    ELSE /\ sent' = <<>>
         /\ UNCHANGED <<jobs, kv_enabled, kv_time, kv_days, kv_ui, kv_curr, kv_last, kv_tmp, custom_rows>>

\* handle_text, ui == "await_days"
TextAwaitDays(txt) ==
    IF OrEmpty(_normalize_days(txt)) = <<>>
    THEN /\ sent' = <<"bad_days">>
         /\ UNCHANGED <<jobs, kv_enabled, kv_time, kv_days, kv_ui, kv_curr, kv_last, kv_tmp, custom_rows>>
    ELSE /\ kv_days' = SetRow(kv_days, CurrOrDefault, _normalize_days(txt))
         /\ kv_ui' = ""
         /\ IF CurrOrDefault \notin IndKeys(custom_rows)
            THEN sent' = <<"KeyError">> /\ jobs' = jobs
            ELSE /\ jobs' = Resched(jobs, CurrOrDefault, kv_enabled[CurrOrDefault],
                                    kv_time[CurrOrDefault], _normalize_days(txt))
                 /\ sent' = <<"days_set">>
         /\ UNCHANGED <<kv_enabled, kv_time, kv_curr, kv_last, kv_tmp, custom_rows>>

\* the row of a key with the default written when nothing is stored
WithDefault(rows_kv, key, default) ==
    IF rows_kv[key] = NoneText THEN SetRow(rows_kv, key, default) ELSE rows_kv

\* handle_text, ui == "await_pick_ind"
TextAwaitPickInd(txt) ==
    IF key_by_title_sync(custom_rows, txt) = ""
    THEN /\ sent' = <<"unknown_indicator">>
         /\ UNCHANGED <<jobs, kv_enabled, kv_time, kv_days, kv_ui, kv_curr, kv_last, kv_tmp, custom_rows>>
    ELSE /\ kv_curr' = key_by_title_sync(custom_rows, txt)
         /\ kv_last' = key_by_title_sync(custom_rows, txt)
         /\ kv_time' = WithDefault(kv_time, kv_curr', <<"1", "5", ":", "3", "0">>)
         /\ kv_days' = WithDefault(kv_days, kv_curr', EveryDay)
         /\ kv_ui' = ""
         /\ sent' = <<"indicator_picked">>
         /\ jobs' = IF kv_enabled[kv_curr'] = <<"1">>
                    THEN Resched(jobs, kv_curr', kv_enabled[kv_curr'], kv_time'[kv_curr'], kv_days'[kv_curr'])
                    ELSE jobs
         /\ UNCHANGED <<kv_enabled, kv_tmp, custom_rows>>

\* handle_text, ui == "await_add_title"
TextAwaitAddTitle(txt) ==
    IF Len(txt) < 2 \/ Len(txt) > 64
    THEN /\ sent' = <<"bad_title">>
         /\ UNCHANGED <<jobs, kv_enabled, kv_time, kv_days, kv_ui, kv_curr, kv_last, kv_tmp, custom_rows>>
    ELSE /\ kv_tmp' = [kv_tmp EXCEPT !.add_title = txt]
         /\ kv_ui' = "await_add_url"
         /\ sent' = <<"ask_url">>
         /\ UNCHANGED <<jobs, kv_enabled, kv_time, kv_days, kv_curr, kv_last, custom_rows>>

\* handle_text, ui == "await_add_url"
TextAwaitAddUrl(txt) ==
    IF ~IsUrl(txt)
    THEN /\ sent' = <<"bad_url">>
         /\ UNCHANGED <<jobs, kv_enabled, kv_time, kv_days, kv_ui, kv_curr, kv_last, kv_tmp, custom_rows>>
    ELSE /\ kv_tmp' = [kv_tmp EXCEPT !.add_url = txt]
         /\ kv_ui' = "await_add_rule"
         /\ sent' = <<"ask_rule">>
         /\ UNCHANGED <<jobs, kv_enabled, kv_time, kv_days, kv_curr, kv_last, custom_rows>>

\* handle_text, ui == "await_add_rule"
TextAwaitAddRule(txt) ==
    IF Upper(txt) \notin {LT, GT, FOMC}
    THEN /\ sent' = <<"bad_rule">>
         /\ UNCHANGED <<jobs, kv_enabled, kv_time, kv_days, kv_ui, kv_curr, kv_last, kv_tmp, custom_rows>>
    ELSE /\ custom_rows' = add_custom_indicator(custom_rows, kv_tmp.add_title, kv_tmp.add_url, Upper(txt))
         /\ kv_curr' = _make_key(Strip(kv_tmp.add_title))
         /\ kv_last' = _make_key(Strip(kv_tmp.add_title))
         /\ kv_tmp' = [add_title |-> <<>>, add_url |-> <<>>]
         /\ kv_ui' = ""
         /\ sent' = <<"custom_added">>
         /\ UNCHANGED <<jobs, kv_enabled, kv_time, kv_days>>

\* handle_text, ui == "await_del_pick": the row goes, and current and last indicator go back
\* to the default; the job of the key and its sched2 rows are not touched
TextAwaitDelPick(txt) ==
    IF ~\E i \in 1..Len(custom_rows) : custom_rows[i].title = txt
    THEN /\ sent' = <<"pick_custom">>
         /\ UNCHANGED <<jobs, kv_enabled, kv_time, kv_days, kv_ui, kv_curr, kv_last, kv_tmp, custom_rows>>
    ELSE /\ custom_rows' = delete_custom_indicator_by_title(custom_rows, txt)
         /\ kv_ui' = ""
         /\ IF Len(custom_rows') < Len(custom_rows)
            THEN /\ kv_curr' = IF kv_curr = key_by_title_sync(custom_rows, txt) THEN DEFAULT_IND ELSE kv_curr
                 /\ kv_last' = IF kv_last = key_by_title_sync(custom_rows, txt) THEN DEFAULT_IND ELSE kv_last
                 /\ sent' = <<"custom_deleted">>
            ELSE /\ sent' = <<"nothing_to_delete">>
                 /\ UNCHANGED <<kv_curr, kv_last>>
         /\ UNCHANGED <<jobs, kv_enabled, kv_time, kv_days, kv_tmp>>

\* handle_text: a message that is no button and no command
HandleText ==
    /\ bot_pc = "chat"
    /\ \E txt \in TextsFor(kv_ui) :
          CASE kv_ui = "await_time" -> TextAwaitTime(Strip(txt))
            [] kv_ui = "" -> TextNoState(Strip(txt))
            [] kv_ui = "await_days" -> TextAwaitDays(Strip(txt))
            [] kv_ui = "await_pick_ind" -> TextAwaitPickInd(Strip(txt))
            [] kv_ui = "await_add_title" -> TextAwaitAddTitle(Strip(txt))
            [] kv_ui = "await_add_url" -> TextAwaitAddUrl(Strip(txt))
            [] kv_ui = "await_add_rule" -> TextAwaitAddRule(Strip(txt))
            [] kv_ui = "await_del_pick" -> TextAwaitDelPick(Strip(txt))
    /\ UNCHANGED botfix
    /\ UNCHANGED rest_b

\* a job of the scheduler fires: _job -> send_indicator_update_for_chat(chat_id, ind_key),
\* which looks the key up in get_indicators(chat_id)
FireJob ==
    /\ bot_pc = "chat"
    /\ \E j \in jobs :
          sent' = IF j.id \notin IndKeys(custom_rows) THEN <<"job", j.id, "KeyError">>
                  ELSE <<"job", j.id, "update">>
    /\ UNCHANGED <<jobs, kv_enabled, kv_time, kv_days, kv_ui, kv_curr, kv_last, kv_tmp, custom_rows>>
    /\ UNCHANGED botfix
    /\ UNCHANGED rest_b

NextBot ==
    \/ OpenInvestingMenu
    \/ GoBack
    \/ OpenSettings
    \/ BackFromSettings
    \/ SettingsPickIndicator
    \/ SettingsSetTime
    \/ SettingsSetDays
    \/ CustomAddStart
    \/ CustomDelStart
    \/ SettingsEnable
    \/ SettingsDisable
    \/ HandleText
    \/ FireJob

\* every sequence of messages of one chat, handled one after the other
SpecBot == InitBot /\ [][NextBot]_vars

-----------------------------------------------------------------------------
(* The background poll loop (SpecPoll) *)

\* last_state = None
NoState == <<>>

\* a row of the JOBLESS_CLAIMS table as poll_loop and _signal_from_rows read it
PollRow(a, f, d) ==
    [date |-> d, actual_val |-> a, actual_unit |-> UnitOf(a), forecast_val |-> f,
     forecast_unit |-> UnitOf(f), previous_val |-> Dec(5, 0), previous_unit |-> "percent"]

\* the top rows a fetch can show: actual and forecast missing or present, two release dates
PollRows == {PollRow(a, f, d) : a \in {None, Dec(5, 0), Dec(55, -1)}, f \in {None, Dec(5, 0)},
                                d \in {"Nov 05", "Nov 12"}}

\* the subscribers list_subs() returns
SubLists == {<<>>, <<101>>, <<101, 102>>}

\* what one turn of the loop meets: get_indicators or the fetch raises, the fetch returns an
\* error, an empty list, or rows, the first of which is given; and the subscribers of the moment
Observations ==
    {[kind |-> k, rows |-> <<>>, subs |-> s] : k \in {"raise", "err", "rows"}, s \in SubLists}
        \cup {[kind |-> "rows", rows |-> <<r>>, subs |-> s] : r \in PollRows, s \in SubLists}

\* state_now = ("num" if a is not None else "wait", a, f, top.get("date", ""))
StateNow(row) ==
    << IF row.actual_val # None THEN "num" ELSE "wait", row.actual_val, row.forecast_val, row.date >>

\* last_state and last_state[0] == "wait" and state_now[0] == "num", the mutated condition
NotifiesOnNum(last, now) == now[1] = "num"

\* last_state and last_state[0] == "wait" and state_now[0] == "num"
Notifies(last, now) == last # NoState /\ last[1] = "wait" /\ now[1] = "num"

\* the send_message calls of one notification
Sends(subs, text) == [i \in 1..Len(subs) |-> [chat_id |-> subs[i], text |-> text]]

\* the body of the while loop for one observation: the messages it sends
PollSends(last, o) ==
    IF o.kind # "rows" \/ o.rows = <<>> THEN <<>>
    ELSE IF last # StateNow(o.rows[1]) /\ Notifies(last, StateNow(o.rows[1]))
    THEN Sends(o.subs, _signal_from_rows(o.rows[1], "JOBLESS_CLAIMS", PRESET_INDICATORS))
    ELSE <<>>

\* the body of the while loop for one observation: last_state after it
PollState(last, o) ==
    IF o.kind # "rows" \/ o.rows = <<>> THEN last
    ELSE IF last # StateNow(o.rows[1]) THEN StateNow(o.rows[1])
    ELSE last

\* the last row seen before a turn and the observation of the turn
Seen(before, o) == [before |-> before, now |-> o]

\* the top row of the last observation that had one, the observation of the turn included
LastTop == IF observed.now.kind = "rows" /\ observed.now.rows # <<>> THEN observed.now.rows[1]
           ELSE observed.before

\* poll_loop before its first turn
InitPoll ==
    /\ bot_pc = "poll"
    /\ scheduler = "running"
    /\ last_state = NoState
    /\ observed = Seen(None, [kind |-> "start", rows |-> <<>>, subs |-> <<>>])
    /\ sent = <<>>
    /\ jobs = {} /\ kv_enabled = <<>> /\ kv_time = <<>> /\ kv_days = <<>>
    /\ kv_ui = "" /\ kv_curr = "" /\ kv_last = "" /\ kv_tmp = <<>> /\ custom_rows = <<>>
    /\ tasks = <<>>
    /\ IdleScalar
    /\ IdleFetch
    /\ IdleSignal
    /\ IdleAlt
    /\ IdleIso
    /\ IdleRender

\* one turn of the while loop of poll_loop
PollTurn ==
    /\ bot_pc = "poll"
    /\ \E o \in Observations :
          /\ observed' = Seen(LastTop, o)
          /\ sent' = PollSends(last_state, o)
          /\ last_state' = PollState(last_state, o)
    /\ UNCHANGED <<bot_pc, scheduler, jobs, kv_enabled, kv_time, kv_days, kv_ui, kv_curr, kv_last,
                   kv_tmp, custom_rows, tasks>>
    /\ UNCHANGED rest_b

NextPoll == PollTurn

\* the poll loop, turn after turn
SpecPoll == InitPoll /\ [][NextPoll]_vars

-----------------------------------------------------------------------------
(* Claims about the pair fetch_table_rows returns (SpecTable) *)

\* fetch_table_rows has returned
Returned == pc = "done" /\ ret # NotReturned

\* C26: fetch_table_rows returns no error only together with a non-empty row list, and
\* an error whenever the row list returned is empty, for every limit >= 0, 0 included.
C26_NoErrorMeansRows ==
    Returned =>
        /\ ret.err = NoErr => ret.rows # <<>>
        /\ ret.rows = <<>> => ret.err # NoErr

\* the 0-based indexes of the header cells of the located table that contain a keyword
HeaderHits(keys) ==
    {i \in 0..(Len(target.heads) - 1) : \E k \in 1..Len(keys) : IsSubstr(keys[k], target.heads[i + 1])}

\* the cell text a column stands for in one body row: the cell under the first header
\* cell with a keyword, empty when the row has no such cell, and without a keyword
\* cell the cell fromEnd places before the row's end
ColumnText(vals, keys, fromEnd) ==
    IF HeaderHits(keys) # {}
    THEN (IF FirstOf(HeaderHits(keys)) < Len(vals) THEN vals[FirstOf(HeaderHits(keys)) + 1] ELSE <<>>)
    ELSE vals[Len(vals) - fromEnd + 1]

\* the body rows of the located table that are kept
KeptRows == SelectSeq(LocatedBody, LAMBDA tr : Len(tr) >= 5)

\* C24: each of the actual, forecast and previous columns is the index of the first
\* header cell containing one of its keywords; without such a header cell the value is
\* read from the 3rd-from-last, 2nd-from-last and last cell of each row, whatever its
\* cell count; an index beyond a row's cells gives an empty text and an absent value.
C24_ColumnResolution ==
    Extracted =>
        /\ Len(rows) = Len(KeptRows)
        /\ \A k \in 1..Len(rows) :
              /\ rows[k].actual = _clean(ColumnText(KeptRows[k], _HEAD_ACTUAL_KEYS, 3))
              /\ rows[k].forecast = _clean(ColumnText(KeptRows[k], _HEAD_FORECAST_KEYS, 2))
              /\ rows[k].previous = _clean(ColumnText(KeptRows[k], _HEAD_PREV_KEYS, 1))
              /\ rows[k].actual_val = _to_scalar(ColumnText(KeptRows[k], _HEAD_ACTUAL_KEYS, 3)).val
              /\ rows[k].forecast_val = _to_scalar(ColumnText(KeptRows[k], _HEAD_FORECAST_KEYS, 2)).val
              /\ rows[k].previous_val = _to_scalar(ColumnText(KeptRows[k], _HEAD_PREV_KEYS, 1)).val
              /\ rows[k].previous = <<>> => rows[k].previous_val = None

\* a seven-cell header whose only keyword cell is the seventh, over a row of five cells
\* and a row of six: actual and forecast come from the end of each row, previous is empty
C24_Witness ==
    /\ Extracted
    /\ Len(target.heads) = 7
    /\ LocatedBody = <<rGood, rSix>>
    /\ rows[1].actual = rGood[3] /\ rows[1].forecast = rGood[4]
    /\ rows[2].actual = rSix[4] /\ rows[2].forecast = rSix[5]
    /\ rows[1].previous = <<>> /\ rows[1].previous_val = None
    /\ rows[2].previous = <<>> /\ rows[2].previous_val = None

-----------------------------------------------------------------------------
(* Claims about the release time of a row (SpecIso) *)

\* lines 388-390 have run on the row
Stamped == iso_pc = "stamped"

\* the row has the key release_dt_iso
HasIso == "release_dt_iso" \in DOMAIN iso_row

\* the date text is a day, a month and a year of the calendar, in one of the two forms
DateParses(d) ==
    /\ ~DateMissing(DayMonthYear(d))
    /\ DateTimeOk(DayMonthYear(d).year, DayMonthYear(d).month.v, DayMonthYear(d).day, 0, 0)

\* the time text, as a whole, is H:MM or HH:MM of the 24-hour clock
TimeIsHHMM(t) ==
    /\ TimeMatch(t).matched
    /\ TimeMatch(t).hh \in 0..23
    /\ TimeMatch(t).mm \in 0..59

\* C23: a row gets a release_dt_iso field only when both its date text parses as a date
\* and its time text parses as HH:MM; a row whose date parses but whose time text is
\* non-empty and not of the form HH:MM gets no release_dt_iso field.
C23_IsoNeedsDateAndTime ==
    Stamped =>
        /\ HasIso => (DateParses(iso_row.date) /\ TimeIsHHMM(iso_row.time))
        /\ (DateParses(iso_row.date) /\ iso_row.time # <<>> /\ ~TimeIsHHMM(iso_row.time)) => ~HasIso

\* C25: for every month number 1..12, the date "15 <abbreviation> 2026" written with the
\* month's English or Russian three-letter abbreviation, with a valid HH:MM time and a
\* configured time zone, gives an ISO timestamp whose month is that number.
C25_TwelveMonthsBothLanguages ==
    \A m \in 1..12 :
        ( /\ Stamped
          /\ _tz # "None"
          /\ TimeIsHHMM(iso_row.time)
          /\ iso_row.date \in {DayOf(EnglishAbbr[m]), DayOf(RussianAbbr[m])} )
        => (HasIso /\ iso_row.release_dt_iso.month = m)

-----------------------------------------------------------------------------
(* Claims about the renderers (SpecRender) *)

\* the rows argument is None or the empty list
NoRows == ren_rows = None \/ ren_rows = RowList(<<>>)

\* the height of the image of a table of one row
OneRowHeight == ImageHeight(<<DashRow>>)

\* C21: given an empty (or None) row list, format_table_for_tg and render_table_png both
\* complete and render exactly one body row whose five cells are dashes; the image
\* height then equals that of a one-row table.
C21_DashRowForNoRows ==
    /\ (ren_pc = "text" /\ NoRows) =>
          /\ Len(tg_text.body_lines) = 1
          /\ tg_text.body_lines[1] = CellLine(DashRow)
    /\ (ren_pc = "image" /\ NoRows) =>
          /\ png_image.tbl = <<DashRow>>
          /\ png_image.height = OneRowHeight
          /\ png_image.height > ImageHeight(<<>>)
    /\ (ren_pc = "image" /\ ~NoRows /\ Len(png_image.tbl) = 1) => png_image.height = OneRowHeight

\* render_table_png has drawn the dash row for the argument None
C21_Witness ==
    /\ ren_pc = "image"
    /\ ren_rows = None
    /\ png_image.tbl = <<DashRow>>
    /\ png_image.height = 284

-----------------------------------------------------------------------------
(* Claims about reschedule_user_job run sequentially (SpecResched) *)

\* the jobs the scheduler holds for the pair (chat, ind)
JobsOf(ind) == {j \in jobs : j.id = ind}

\* a value is stored under the key and is not empty
Stored(val) == val # NoneText /\ val # <<>>

\* C22: after reschedule_user_job completes, run sequentially, the scheduler holds at most
\* one job for the pair, and it holds one only if the stored enabled flag is "1", a time
\* is stored and parses as HH:MM, and days are stored and parse as a day specification;
\* in every other case no job of the pair is left.
C22_OneJobOnlyIfConfigured ==
    (bot_pc = "done" /\ tasks = <<>>) =>
        /\ Cardinality(JobsOf(kv_curr)) <= 1
        /\ JobsOf(kv_curr) # {} =>
              /\ kv_enabled[kv_curr] = <<"1">>
              /\ Stored(kv_time[kv_curr]) /\ _parse_hhmm(kv_time[kv_curr]) # None
              /\ Stored(kv_days[kv_curr]) /\ _normalize_days(kv_days[kv_curr]) # NoneText
              /\ \A j \in JobsOf(kv_curr) :
                    /\ j.trig.hour = _parse_hhmm(kv_time[kv_curr]).hh
                    /\ j.trig.minute = _parse_hhmm(kv_time[kv_curr]).mm

\* enabled, 9:05 on Monday to Thursday written in Russian: one job at 9:05
C22_Witness ==
    /\ bot_pc = "done" /\ tasks = <<>>
    /\ kv_enabled[kv_curr] = <<"1">>
    /\ kv_time[kv_curr] = <<"9", ":", "0", "5">>
    /\ kv_days[kv_curr] = <<"cy_p", "cy_n", "-", "cy_ch", "cy_t">>
    /\ JobsOf(kv_curr) = {[id |-> kv_curr,
                           trig |-> [hour |-> 9, minute |-> 5,
                                     day_of_week |-> <<"m", "o", "n", "-", "t", "h", "u">>]]}

-----------------------------------------------------------------------------
(* Claims about concurrent handlers (SpecRace) *)

\* the trigger arguments that go with the stored time and days
StoredTrig == TrigKwargs(_parse_hhmm(kv_time[kv_curr]), _normalize_days(kv_days[kv_curr]))

\* C27: for any interleaving of concurrently running enable, disable, set-time and set-days
\* handlers of one chat and indicator, once all handlers have finished the scheduler holds
\* a job for the pair only if the stored enabled flag is "1", and the job's trigger uses
\* the finally stored time and days.
C27_RaceLeavesStoredSchedule ==
    (bot_pc = "race" /\ AllDone) =>
        /\ JobsOf(kv_curr) # {} => kv_enabled[kv_curr] = <<"1">>
        /\ \A j \in JobsOf(kv_curr) : j.trig = StoredTrig

-----------------------------------------------------------------------------
(* Claims about the handlers of a chat (SpecBot) *)

\* C28: after any sequence of add-custom-indicator, enable, set-time, set-days and
\* delete-custom-indicator operations in a chat, every job held by the scheduler refers to
\* an indicator key that is present in the chat's indicator map, so a firing job never
\* looks up a deleted indicator; deleting a custom indicator that has an enabled schedule
\* leaves no scheduled job for its key.
C28_JobsReferToKnownIndicators ==
    bot_pc = "chat" =>
        /\ \A j \in jobs : j.id \in IndKeys(custom_rows)
        /\ \A k \in Inds : sent # <<"job", k, "KeyError">>

\* a navigation handler has answered
Navigated == sent' \in {<<"main_menu">>, <<"investing_menu">>, <<"settings">>, <<"settings_done">>}

\* C30: whenever the user leaves a pending input step by pressing a navigation button
\* (Back to main menu, open Investing menu, open Settings, back from Settings), the chat's
\* pending input state is cleared, so the next plain-text message naming an indicator is
\* handled as an indicator selection (the branch of handle_text for the cleared state).
C30_NavigationClearsPendingInput ==
    [][(bot_pc = "chat" /\ kv_ui # "" /\ Navigated) =>
            kv_ui' = ""]_vars

-----------------------------------------------------------------------------
(* Claims about the poll loop (SpecPoll) *)

\* the turn observed a top row
SawTop == observed.now.kind = "rows" /\ observed.now.rows # <<>>

\* the top row went from actual missing to actual present between the last observation that
\* had a top row and the one of this turn
ActualArrived ==
    /\ SawTop
    /\ observed.before # None
    /\ observed.before.actual_val = None
    /\ observed.now.rows[1].actual_val # None

=============================================================================
